---- MODULE Spec2Model ----
(***************************************************************************)
(* Global filter engine of the GSLB federation core (package gslbutils),   *)
(* the ApplyFilter evaluation of ingress-host and route metadata (package  *)
(* k8sobjects) and the operations around them.                             *)
(*                                                                         *)
(* Go strings are sequences of byte codes, so that concatenation (k + v,   *)
(* ClusterName + strconv.Itoa(Weight)) and hashing are computed, not       *)
(* assumed.  A uint32 is a pair <<high 16 bits, low 16 bits>>.  A pointer  *)
(* that may be nil is a sequence of length 0 (nil) or 1 (the pointee).     *)
(***************************************************************************)
EXTENDS Integers, Sequences, FiniteSets, TLC

VARIABLES
    gf,         \* the process-wide GlobalFilter (Gfi)
    op,         \* the last call made: its name, arguments and return value
    lastWriter, \* name of the last AddToFilter/UpdateGlobalFilter/DeleteFromGlobalFilter call
    panicked,   \* TRUE once a call has panicked (the process is gone)
    rd,         \* the ApplyFilter evaluation in flight in the interleaved specification
    seen,       \* filter states that existed while that evaluation was in flight
    store,      \* the cluster object stores, one per object kind
    hostMap,    \* the host memory caches of the ingress hosts and of the routes
    hist,       \* what the callers did last: per object its last event, per key its last Remember
    queues,     \* the named work queues of the layers and the keys the downstream layer works on
    locks,      \* GlobalLock and the Lock of every NamespaceFilter object
    th          \* the goroutines inside a call on the global filter, in the locking specification

vars == <<gf, op, lastWriter, panicked, rd, seen, store, hostMap, hist, queues, locks, th>>

\* The state of the ingestion side, which no call on the global filter touches.
ingestVars == <<store, hostMap, hist>>

---------------------------------------------------------------------------
(* Bounds *)

\* AddToFilter appends to the live TrafficSplit; calls that would make it
\* longer than this are not explored.
MaxLiveSplit == 2

---------------------------------------------------------------------------
(* Strings *)

c1 == <<99, 49>>          \* "c1"
c2 == <<99, 50>>          \* "c2"
n1 == <<110, 49>>         \* "n1"
n2 == <<110, 50>>         \* "n2"
s_a == <<97>>             \* "a"
s_ab == <<97, 98>>        \* "ab"
s_bc == <<98, 99>>        \* "bc"
s_c == <<99>>             \* "c"

\* strconv.Itoa for a non-negative int.
RECURSIVE Itoa(_)
Itoa(n) == IF n < 10 THEN <<48 + n>> ELSE Itoa(n \div 10) \o <<48 + (n % 10)>>

---------------------------------------------------------------------------
(* uint32 arithmetic and utils.Hash (32-bit FNV-1a) *)

Zero32 == <<0, 0>>

Add32(x, y) ==
    LET lo == x[2] + y[2]
    IN  << (x[1] + y[1] + (lo \div 65536)) % 65536, lo % 65536 >>

RECURSIVE Xor(_, _, _)
Xor(a, b, n) ==
    IF n = 0 THEN 0
    ELSE (((a % 2) + (b % 2)) % 2) + 2 * Xor(a \div 2, b \div 2, n - 1)

\* One byte of FNV-1a: h = (h XOR b) * 16777619 mod 2^32, 16777619 = 2^24 + 403.
FnvStep(h, b) ==
    LET lo  == (h[2] \div 256) * 256 + Xor(h[2] % 256, b, 8)
        plo == lo * 403
    IN  << (h[1] * 403 + (plo \div 65536) + (lo % 256) * 256) % 65536, plo % 65536 >>

RECURSIVE FnvFrom(_, _)
FnvFrom(h, s) == IF s = <<>> THEN h ELSE FnvFrom(FnvStep(h, Head(s)), Tail(s))

\* 32-bit FNV-1a of s; the offset basis 2166136261 is <<33052, 40389>>.
Fnv1a(s) == FnvFrom(<<33052, 40389>>, s)

---------------------------------------------------------------------------
(* Labels, policies (GlobalDeploymentPolicy) and candidates *)

NoLabels == [k \in {} |-> <<>>]
LabelA  == (s_a :> s_bc)                  \* {"a": "bc"}
LabelAB == (s_ab :> s_c)                  \* {"ab": "c"}
LabelsBoth == (s_a :> s_bc) @@ (s_ab :> s_c)

\* Selector label maps with zero, one and two pairs.
Selectors == {NoLabels, LabelA, LabelAB, LabelsBoth}

MatchClusterLists == {<<>>, <<c1>>, <<c1, c2>>, <<c2, c1>>}

TS(c, w) == [Cluster |-> c, Weight |-> w]

\* Traffic splits: empty, one cluster, two clusters in both orders, a change
\* of one weight, and a list that names a cluster twice.
TrafficSplitLists ==
    {<<>>, <<TS(c1, 1)>>,
     <<TS(c1, 1), TS(c2, 2)>>, <<TS(c2, 2), TS(c1, 1)>>,
     <<TS(c1, 2), TS(c2, 2)>>,
     <<TS(c1, 1), TS(c1, 2)>>}

\* Traffic splits of the old policy handed to UpdateGlobalFilter.
OldSplitLists == {<<>>, <<TS(c1, 1)>>, <<TS(c1, 1), TS(c2, 2)>>}

GDP(app, ns, mc, ts) ==
    [AppSelector |-> app, NamespaceSelector |-> ns, MatchClusters |-> mc, TrafficSplit |-> ts]

\* The policy documents the handlers are called with: every combination of
\* selectors over a fixed cluster list, and every combination of cluster
\* list and traffic split under a fixed selector.
Policies ==
    {GDP(a, n, <<c1>>, <<>>) : a \in Selectors, n \in Selectors}
    \cup {GDP(LabelA, NoLabels, mc, ts) : mc \in MatchClusterLists, ts \in TrafficSplitLists}

\* utils.Hash, computed once for the strings the policies can make it hash.
HashedStrings ==
    UNION {{k \o sel[k] : k \in DOMAIN sel} : sel \in Selectors}
    \cup UNION {{mc[i] : i \in 1..Len(mc)} : mc \in MatchClusterLists}
    \cup UNION {{ts[i].Cluster \o Itoa(ts[i].Weight) : i \in 1..Len(ts)} : ts \in TrafficSplitLists}
    \cup {c \o Itoa(w) : c \in {c1, c2}, w \in {1, 2}}

HashOf == [s \in HashedStrings |-> Fnv1a(s)]

Hash(s) == IF s \in HashedStrings THEN HashOf[s] ELSE Fnv1a(s)

\* A candidate object: the fields ApplyFilter reads.
Candidates ==
    [Cluster : {c1, c2}, Namespace : {n1}, Labels : {NoLabels, LabelA}]

Kinds == {"ingress", "route"}

---------------------------------------------------------------------------
(* The global filter *)

\* A nil Go map: reads find nothing, an assignment panics.
NilMap == [made |-> FALSE, entries |-> NoLabels]

GetNewGlobalFilter ==
    [AppFilter |-> <<>>, NSFilter |-> <<>>, TrafficSplit |-> <<>>,
     ApplicableClusters |-> <<>>, Checksum |-> Zero32]

PresentInList(key, strList) == \E i \in 1..Len(strList) : strList[i] = key

\* Called on maps of length 1 only, where the iteration order does not matter.
getLabelKeyAndValue(lbl) ==
    IF DOMAIN lbl = {} THEN <<<<>>, <<>>>>
    ELSE LET k == CHOOSE x \in DOMAIN lbl : TRUE IN <<k, lbl[k]>>

createNewNSFilter(lbl) ==
    LET kv == getLabelKeyAndValue(lbl)
    IN  [Key |-> kv[1], Value |-> kv[2], SelectedNS |-> NilMap,
         Checksum |-> Hash(kv[1] \o kv[2])]

\* SumHash as a rolling checksum: the running sum is doubled before each
\* hash is added, so the result depends on the order of the list.
RECURSIVE SumHash_Rolling(_, _)
SumHash_Rolling(strs, acc) ==
    IF strs = <<>> THEN acc
    ELSE SumHash_Rolling(Tail(strs), Add32(Add32(acc, acc), Hash(Head(strs))))

RECURSIVE SumHash(_, _)
SumHash(strs, acc) ==
    IF strs = <<>> THEN acc ELSE SumHash(Tail(strs), Add32(acc, Hash(Head(strs))))

TrafficKey(ts) == ts.ClusterName \o Itoa(ts.Weight)

ComputeChecksum(f) ==
    LET a == IF f.AppFilter # <<>>
             THEN Add32(Zero32, Hash(f.AppFilter[1].Key \o f.AppFilter[1].Value))
             ELSE Zero32
        n == IF f.NSFilter # <<>> THEN Add32(a, f.NSFilter[1].Checksum) ELSE a
        c == SumHash(f.ApplicableClusters, n)
    IN  SumHash([i \in 1..Len(f.TrafficSplit) |-> TrafficKey(f.TrafficSplit[i])], c)

\* AddToFilter accepting any non-empty selector instead of exactly one pair.
AddToFilter_AnyNonEmpty(f, gdp) ==
    LET f1 == IF Cardinality(DOMAIN gdp.AppSelector) >= 1
              THEN LET kv == getLabelKeyAndValue(gdp.AppSelector)
                   IN  [f EXCEPT !.AppFilter = <<[Key |-> kv[1], Value |-> kv[2]]>>]
              ELSE f
        f2 == IF Cardinality(DOMAIN gdp.NamespaceSelector) >= 1
              THEN [f1 EXCEPT !.NSFilter = <<createNewNSFilter(gdp.NamespaceSelector)>>]
              ELSE f1
        f3 == [f2 EXCEPT !.ApplicableClusters = gdp.MatchClusters]
        f4 == [f3 EXCEPT !.TrafficSplit =
                  f3.TrafficSplit \o
                  [i \in 1..Len(gdp.TrafficSplit) |->
                      [ClusterName |-> gdp.TrafficSplit[i].Cluster,
                       Weight |-> gdp.TrafficSplit[i].Weight]]]
    IN  [f4 EXCEPT !.Checksum = ComputeChecksum(f4)]

AddToFilter(f, gdp) ==
    LET f1 == IF Cardinality(DOMAIN gdp.AppSelector) = 1
              THEN LET kv == getLabelKeyAndValue(gdp.AppSelector)
                   IN  [f EXCEPT !.AppFilter = <<[Key |-> kv[1], Value |-> kv[2]]>>]
              ELSE f
        f2 == IF Cardinality(DOMAIN gdp.NamespaceSelector) = 1
              THEN [f1 EXCEPT !.NSFilter = <<createNewNSFilter(gdp.NamespaceSelector)>>]
              ELSE f1
        f3 == [f2 EXCEPT !.ApplicableClusters = gdp.MatchClusters]
        f4 == [f3 EXCEPT !.TrafficSplit =
                  f3.TrafficSplit \o
                  [i \in 1..Len(gdp.TrafficSplit) |->
                      [ClusterName |-> gdp.TrafficSplit[i].Cluster,
                       Weight |-> gdp.TrafficSplit[i].Weight]]]
    IN  [f4 EXCEPT !.Checksum = ComputeChecksum(f4)]

\* isTrafficWeightChanged comparing the two lists position by position.
isTrafficWeightChanged_Positional(new, old) ==
    IF Len(old.TrafficSplit) # Len(new.TrafficSplit) THEN TRUE
    ELSE \E i \in 1..Len(old.TrafficSplit) : old.TrafficSplit[i] # new.TrafficSplit[i]

isTrafficWeightChanged(new, old) ==
    IF Len(old.TrafficSplit) # Len(new.TrafficSplit) THEN TRUE
    ELSE \E i \in 1..Len(old.TrafficSplit) :
            \/ \E j \in 1..Len(new.TrafficSplit) :
                  /\ old.TrafficSplit[i].Cluster = new.TrafficSplit[j].Cluster
                  /\ old.TrafficSplit[i].Weight # new.TrafficSplit[j].Weight
            \/ ~ \E j \in 1..Len(new.TrafficSplit) :
                  old.TrafficSplit[i].Cluster = new.TrafficSplit[j].Cluster

\* The filter after the call and the two return values.
UpdateGlobalFilter(f, oldGDP, newGDP) ==
    LET nf == AddToFilter(GetNewGlobalFilter, newGDP)
    IN  IF f.Checksum = nf.Checksum
        THEN [gf |-> f, ret |-> <<FALSE, FALSE>>]
        ELSE [gf |-> [f EXCEPT !.AppFilter = nf.AppFilter,
                               !.NSFilter = nf.NSFilter,
                               !.TrafficSplit = nf.TrafficSplit,
                               !.ApplicableClusters = nf.ApplicableClusters,
                               !.Checksum = nf.Checksum],
              ret |-> <<TRUE, isTrafficWeightChanged(newGDP, oldGDP)>>]

\* DeleteFromGlobalFilter that forgets to empty the traffic split.
DeleteFromGlobalFilter_KeepSplit(f) ==
    [f EXCEPT !.AppFilter = <<>>, !.NSFilter = <<>>, !.ApplicableClusters = <<>>,
              !.Checksum = Zero32]

DeleteFromGlobalFilter(f) ==
    [f EXCEPT !.AppFilter = <<>>, !.NSFilter = <<>>, !.ApplicableClusters = <<>>,
              !.Checksum = Zero32, !.TrafficSplit = <<>>]

\* NamespaceFilter.AddNS: the namespace filter after the call, or a panic
\* (assignment to an entry of a nil map).
AddNS(nsFilter, cname, ns) ==
    LET sel == nsFilter.SelectedNS
    IN  IF cname \notin DOMAIN sel.entries
        THEN IF sel.made
             THEN [panic |-> FALSE,
                   nsFilter |-> [nsFilter EXCEPT !.SelectedNS.entries = (cname :> <<ns>>) @@ @]]
             ELSE [panic |-> TRUE, nsFilter |-> nsFilter]
        ELSE IF ~ PresentInList(ns, sel.entries[cname])
             THEN [panic |-> FALSE,
                   nsFilter |-> [nsFilter EXCEPT !.SelectedNS.entries[cname] = Append(@, ns)]]
             ELSE [panic |-> FALSE, nsFilter |-> nsFilter]

\* The filter after the call and what the caller gets: "nil", "error" or "panic".
AddNSToNSFilter(f, cname, ns) ==
    IF f.NSFilter = <<>>
    THEN [gf |-> f, ret |-> "error"]
    ELSE LET r == AddNS(f.NSFilter[1], cname, ns)
         IN  IF r.panic
             THEN [gf |-> f, ret |-> "panic"]
             ELSE [gf |-> [f EXCEPT !.NSFilter = <<r.nsFilter>>], ret |-> "nil"]

IsClusterAllowed(f, cname) == PresentInList(cname, f.ApplicableClusters)

\* <<weight, "nil">> or <<0, "error">>.
GetTrafficWeight(f, ns, cname) ==
    IF \E i \in 1..Len(f.TrafficSplit) : f.TrafficSplit[i].ClusterName = cname
    THEN LET i == CHOOSE i \in 1..Len(f.TrafficSplit) :
                     /\ f.TrafficSplit[i].ClusterName = cname
                     /\ \A j \in 1..(i - 1) : f.TrafficSplit[j].ClusterName # cname
         IN  <<f.TrafficSplit[i].Weight, "nil">>
    ELSE <<0, "error">>

applyAppFilter(ihmLabels, appFilter) ==
    \E k \in DOMAIN ihmLabels : k = appFilter.Key /\ ihmLabels[k] = appFilter.Value

\* IngressApplyFilter with the last test inverted into an accept: a candidate
\* is accepted when no selector is configured at all.
IngressApplyFilter_AcceptNoSelector(f, ihm) ==
    IF ~ PresentInList(ihm.Cluster, f.ApplicableClusters) THEN FALSE
    ELSE IF f.NSFilter # <<>>
         THEN LET sel == f.NSFilter[1].SelectedNS
              IN  IF ihm.Cluster \notin DOMAIN sel.entries THEN FALSE
                  ELSE IF PresentInList(ihm.Namespace, sel.entries[ihm.Cluster])
                       THEN IF f.AppFilter = <<>> THEN TRUE
                            ELSE applyAppFilter(ihm.Labels, f.AppFilter[1])
                       ELSE FALSE
         ELSE IF f.AppFilter = <<>> THEN TRUE
              ELSE IF ~ applyAppFilter(ihm.Labels, f.AppFilter[1]) THEN FALSE
                   ELSE TRUE

\* IngressHostMeta.ApplyFilter evaluated with no writer running beside it.
IngressApplyFilter(f, ihm) ==
    IF ~ PresentInList(ihm.Cluster, f.ApplicableClusters) THEN FALSE
    ELSE IF f.NSFilter # <<>>
         THEN LET sel == f.NSFilter[1].SelectedNS
              IN  IF ihm.Cluster \notin DOMAIN sel.entries THEN FALSE
                  ELSE IF PresentInList(ihm.Namespace, sel.entries[ihm.Cluster])
                       THEN IF f.AppFilter = <<>> THEN TRUE
                            ELSE applyAppFilter(ihm.Labels, f.AppFilter[1])
                       ELSE FALSE
         ELSE IF f.AppFilter = <<>> THEN FALSE
              ELSE IF ~ applyAppFilter(ihm.Labels, f.AppFilter[1]) THEN FALSE
                   ELSE TRUE

\* RouteApplyFilter without the test of the applicable clusters.
RouteApplyFilter_NoClusterTest(f, route) ==
    IF f.NSFilter # <<>>
    THEN LET sel == f.NSFilter[1].SelectedNS
         IN  IF route.Cluster \notin DOMAIN sel.entries THEN FALSE
             ELSE IF PresentInList(route.Namespace, sel.entries[route.Cluster])
                  THEN IF f.AppFilter = <<>> THEN TRUE
                       ELSE applyAppFilter(route.Labels, f.AppFilter[1])
                  ELSE FALSE
    ELSE IF f.AppFilter = <<>> THEN FALSE
         ELSE IF ~ applyAppFilter(route.Labels, f.AppFilter[1]) THEN FALSE
              ELSE TRUE

\* RouteMeta.ApplyFilter; it holds the read lock until it returns.
RouteApplyFilter(f, route) ==
    IF ~ PresentInList(route.Cluster, f.ApplicableClusters) THEN FALSE
    ELSE IF f.NSFilter # <<>>
         THEN LET sel == f.NSFilter[1].SelectedNS
              IN  IF route.Cluster \notin DOMAIN sel.entries THEN FALSE
                  ELSE IF PresentInList(route.Namespace, sel.entries[route.Cluster])
                       THEN IF f.AppFilter = <<>> THEN TRUE
                            ELSE applyAppFilter(route.Labels, f.AppFilter[1])
                       ELSE FALSE
         ELSE IF f.AppFilter = <<>> THEN FALSE
              ELSE IF ~ applyAppFilter(route.Labels, f.AppFilter[1]) THEN FALSE
                   ELSE TRUE

ApplyFilter(kind, f, cand) ==
    IF kind = "ingress" THEN IngressApplyFilter(f, cand) ELSE RouteApplyFilter(f, cand)

---------------------------------------------------------------------------
(* Object metadata: routes and ingress hosts (package k8sobjects) *)

h1 == <<104, 49>>                                   \* "h1"
h2 == <<104, 50>>                                   \* "h2"
ip1 == <<49, 46, 49>>                               \* "1.1"
ip2 == <<49, 46, 50>>                               \* "1.2"
r1 == <<114, 49>>                                   \* "r1"
i1 == <<105, 49>>                                   \* "i1"
i2 == <<105, 50>>                                   \* "i2"
Slash == <<47>>                                     \* "/"
p_a == <<47, 97>>                                   \* "/a"
p_b == <<47, 98>>                                   \* "/b"
EmptyString == <<>>                                 \* ""

\* gslbutils.PassthroughRoute, gslbutils.ProtocolTCP and
\* gslbutils.DefaultHTTPSHealthMonitorPort.
PassthroughRoute == <<112, 97, 115, 115, 116, 104, 114, 111, 117, 103, 104>>   \* "passthrough"
EdgeRoute == <<101, 100, 103, 101>>                                           \* "edge"
ProtocolTCP == <<84, 67, 80>>                                                 \* "TCP"
DefaultHTTPSHealthMonitorPort == 443

\* A route as GetRouteMeta reads it.  TLS is the pointer route.Spec.TLS;
\* IPAddr is what gslbutils.RouteGetIPAddr finds in the route's status.
Route(name, ns, host, tls, path, labels, ip) ==
    [Name |-> name, Namespace |-> ns, Host |-> host, TLS |-> tls, Path |-> path,
     Labels |-> labels, IPAddr |-> ip]

\* GetRouteMeta without the early return for passthrough routes: the route
\* is handled as a TLS route with a path list.
GetRouteMeta_NoPassthrough(route, cname) ==
    [Cluster |-> cname, Name |-> route.Name, Namespace |-> route.Namespace,
     Hostname |-> route.Host, IPAddr |-> route.IPAddr, Labels |-> route.Labels,
     Paths |-> IF route.Path # EmptyString THEN <<route.Path>> ELSE <<Slash>>,
     TLS |-> route.TLS # <<>>, Port |-> 0, Protocol |-> EmptyString, Passthrough |-> FALSE]

GetRouteMeta(route, cname) ==
    LET metaObj == [Cluster |-> cname, Name |-> route.Name, Namespace |-> route.Namespace,
                    Hostname |-> route.Host, IPAddr |-> route.IPAddr, Labels |-> route.Labels,
                    Paths |-> <<>>, TLS |-> FALSE, Port |-> 0, Protocol |-> EmptyString,
                    Passthrough |-> FALSE]
    IN  IF route.TLS # <<>> /\ route.TLS[1].Termination = PassthroughRoute
        THEN [metaObj EXCEPT !.Port = DefaultHTTPSHealthMonitorPort,
                             !.Protocol = ProtocolTCP,
                             !.Passthrough = TRUE]
        ELSE [metaObj EXCEPT !.TLS = (route.TLS # <<>>),
                             !.Paths = IF route.Path # EmptyString
                                       THEN <<route.Path>> ELSE <<Slash>>]

\* The getters return <<value, "nil">> or <<zero value, "error">>.
RouteGetPort(route) ==
    IF route.Passthrough THEN <<route.Port, "nil">> ELSE <<0, "error">>

RouteGetProtocol(route) ==
    IF route.Passthrough THEN <<route.Protocol, "nil">> ELSE <<EmptyString, "error">>

RouteGetPaths(route) ==
    IF Len(route.Paths) = 0 THEN <<route.Paths, "error">> ELSE <<route.Paths, "nil">>

RouteGetTLS(route) == <<route.TLS, "nil">>

RouteIsPassthrough(route) == route.Passthrough

IngressGetPort(ing) == <<0, "error">>

IngressGetProtocol(ing) == <<EmptyString, "error">>

IngressGetPaths(ing) ==
    IF Len(ing.Paths) = 0 THEN <<<<>>, "error">> ELSE <<ing.Paths, "nil">>

IngressGetTLS(ing) == <<ing.TLS, "nil">>

IngressIsPassthrough(ing) == FALSE

\* An ingress as GetIngressHostMeta reads it.  A rule is [Host, HTTP], HTTP
\* the pointer rule.HTTP to a list of paths; TLS is the list Spec.TLS of host
\* lists; HostIPs is what gslbutils.IngressGetIPAddrs finds in the status.
Ingress(name, ns, labels, rules, tls, hostIPs) ==
    [Name |-> name, Namespace |-> ns, Labels |-> labels, Rules |-> rules, TLS |-> tls,
     HostIPs |-> hostIPs]

\* The inner loop of getPathsForHost: the paths of one rule, "" read as "/",
\* appended to pathList unless already there.
RECURSIVE AddRulePaths(_, _)
AddRulePaths(paths, pathList) ==
    IF paths = <<>> THEN pathList
    ELSE LET pathKey == IF Head(paths) # EmptyString THEN Head(paths) ELSE Slash
         IN  AddRulePaths(Tail(paths),
                          IF PresentInList(pathKey, pathList) THEN pathList
                          ELSE Append(pathList, pathKey))

\* The outer loop of getPathsForHost: it ends at the first rule of the host.
RECURSIVE PathsOfFirstRule(_, _)
PathsOfFirstRule(host, rules) ==
    IF rules = <<>> THEN <<>>
    ELSE IF Head(rules).Host # host THEN PathsOfFirstRule(host, Tail(rules))
    ELSE IF Head(rules).HTTP # <<>> THEN AddRulePaths(Head(rules).HTTP[1], <<>>)
    ELSE <<>>

getPathsForHost(host, ingress) ==
    LET pathList == PathsOfFirstRule(host, ingress.Rules)
    IN  IF Len(pathList) = 0 THEN <<Slash>> ELSE pathList

RECURSIVE AddHosts(_, _)
AddHosts(hosts, tlsHosts) ==
    IF hosts = <<>> THEN tlsHosts
    ELSE AddHosts(Tail(hosts),
                  IF PresentInList(Head(hosts), tlsHosts) THEN tlsHosts
                  ELSE Append(tlsHosts, Head(hosts)))

RECURSIVE TLSHostsFrom(_, _)
TLSHostsFrom(tls, tlsHosts) ==
    IF tls = <<>> THEN tlsHosts
    ELSE TLSHostsFrom(Tail(tls), AddHosts(Head(tls).Hosts, tlsHosts))

getTLSHosts(ingress) == TLSHostsFrom(ingress.TLS, <<>>)

GetIngressHostMeta(ingress, cname) ==
    LET tlsHosts == getTLSHosts(ingress)
    IN  [k \in 1..Len(ingress.HostIPs) |->
            LET hip == ingress.HostIPs[k]
            IN  [IngName |-> ingress.Name, Namespace |-> ingress.Namespace,
                 Hostname |-> hip.Hostname, IPAddr |-> hip.IPAddr, Cluster |-> cname,
                 ObjName |-> ingress.Name \o Slash \o hip.Hostname,
                 Labels |-> ingress.Labels,
                 Paths |-> getPathsForHost(hip.Hostname, ingress),
                 TLS |-> PresentInList(hip.Hostname, tlsHosts)]]

\* The order of Go strings: byte by byte, a proper prefix first.
RECURSIVE StrLess(_, _)
StrLess(a, b) ==
    IF b = <<>> THEN FALSE
    ELSE IF a = <<>> THEN TRUE
    ELSE IF Head(a) # Head(b) THEN Head(a) < Head(b)
    ELSE StrLess(Tail(a), Tail(b))

RECURSIVE InsertSorted(_, _)
InsertSorted(x, sorted) ==
    IF sorted = <<>> THEN <<x>>
    ELSE IF StrLess(x, Head(sorted)) THEN <<x>> \o sorted
    ELSE <<Head(sorted)>> \o InsertSorted(x, Tail(sorted))

\* sort.Strings: the content of the slice after the call.
RECURSIVE SortStrings(_)
SortStrings(list) ==
    IF list = <<>> THEN <<>> ELSE InsertSorted(Head(list), SortStrings(Tail(list)))

RECURSIVE JoinQuoted(_)
JoinQuoted(list) ==
    IF list = <<>> THEN <<>>
    ELSE <<34>> \o Head(list) \o <<34>>
         \o (IF Tail(list) = <<>> THEN <<>> ELSE <<44>> \o JoinQuoted(Tail(list)))

\* utils.Stringify of a list of strings: its JSON text, ["/a","/b"].
Stringify(list) == <<91>> \o JoinQuoted(list) \o <<93>>

RECURSIVE SumLabelHash(_, _)
SumLabelHash(labels, keys) ==
    IF keys = {} THEN Zero32
    ELSE LET lblKey == CHOOSE k \in keys : TRUE
         IN  Add32(Add32(Hash(lblKey), Hash(labels[lblKey])),
                   SumLabelHash(labels, keys \ {lblKey}))

\* The checksum over the fields and over the paths in the order they are given.
IngressHostCksumOver(ing, paths) ==
    Add32(SumLabelHash(ing.Labels, DOMAIN ing.Labels),
          Add32(Hash(ing.Cluster),
                Add32(Hash(ing.Namespace),
                      Add32(Hash(ing.IngName),
                            Add32(Hash(ing.Hostname),
                                  Add32(Hash(ing.IPAddr), Hash(Stringify(paths))))))))

\* GetIngressHostCksum that does not sort the paths.
GetIngressHostCksum_NoSort(ing) == IngressHostCksumOver(ing, ing.Paths)

\* paths := ing.Paths shares the array of ing.Paths, and sort.Strings sorts
\* that array: PathsAfterCksum is what the array holds when the call returns.
PathsAfterCksum(ing) == SortStrings(ing.Paths)

GetIngressHostCksum(ing) == IngressHostCksumOver(ing, PathsAfterCksum(ing))

---------------------------------------------------------------------------
(* The cluster object store (gslbutils.ClusterStore) and the ingestion   *)
(* operations on it (package ingestion)                                  *)

EmptyMap == [k \in {} |-> <<>>]

\* ClusterStore: cluster -> namespace -> object name -> metadata, held as one
\* map from <<cluster, namespace, object name>> to the metadata.
AddOrUpdate(cs, obj, cname, ns, objName) ==
    (<<cname, ns, objName>> :> obj) @@ cs

DeleteClusterNSObj(cs, cname, ns, objName) ==
    [k \in DOMAIN cs \ {<<cname, ns, objName>>} |-> cs[k]]

\* A load-balancer service as GetSvcMeta reads it, and its metadata.
Service(name, ns, host, ip) == [Name |-> name, Namespace |-> ns, Host |-> host, IPAddr |-> ip]

GetSvcMeta(svc, cname) ==
    [Cluster |-> cname, Name |-> svc.Name, Namespace |-> svc.Namespace,
     Hostname |-> svc.Host, IPAddr |-> svc.IPAddr]

\* The Delete operations take the pointer to the store, <<>> (nil) or
\* <<store>>, and give back what it points to afterwards.
AddOrUpdateRouteStore(clusterRouteStore, route, cname) ==
    AddOrUpdate(clusterRouteStore, GetRouteMeta(route, cname), cname, route.Namespace, route.Name)

DeleteFromRouteStore(clusterRouteStore, route, cname) ==
    IF clusterRouteStore = <<>> THEN <<>>
    ELSE <<DeleteClusterNSObj(clusterRouteStore[1], cname, route.Namespace, route.Name)>>

AddOrUpdateIngressStore(clusterRouteStore, ingHost, cname) ==
    AddOrUpdate(clusterRouteStore, ingHost, cname, ingHost.Namespace, ingHost.ObjName)

\* DeleteClusterNSObj is handed the object name where it takes the cluster
\* name and the cluster name where it takes the object name.
DeleteFromIngressStore(clusterIngStore, ingHost, cname) ==
    IF clusterIngStore = <<>> THEN <<>>
    ELSE <<DeleteClusterNSObj(clusterIngStore[1], ingHost.ObjName, ingHost.Namespace,
                              ingHost.Cluster)>>

AddOrUpdateLBSvcStore(clusterSvcStore, svc, cname) ==
    AddOrUpdate(clusterSvcStore, GetSvcMeta(svc, cname), cname, svc.Namespace, svc.Name)

DeleteFromLBSvcStore(clusterSvcStore, svc, cname) ==
    IF clusterSvcStore = <<>> THEN <<>>
    ELSE <<DeleteClusterNSObj(clusterSvcStore[1], cname, svc.Namespace, svc.Name)>>

---------------------------------------------------------------------------
(* The host memory caches (ihMap and rhMap of package k8sobjects) *)

IPHostname(ip, hostname) == [IP |-> ip, Hostname |-> hostname]

\* IngressHostMeta.UpdateHostMap writing into the map of the routes as well.
IngressUpdateHostMap_SharedMap(hm, ing, key) ==
    [hm EXCEPT !.ingress = (key :> IPHostname(ing.IPAddr, ing.Hostname)) @@ @,
               !.route = (key :> IPHostname(ing.IPAddr, ing.Hostname)) @@ @]

IngressUpdateHostMap(hm, ing, key) ==
    [hm EXCEPT !.ingress = (key :> IPHostname(ing.IPAddr, ing.Hostname)) @@ @]

IngressGetHostnameFromHostMap(hm, ing, key) ==
    IF key \notin DOMAIN hm.ingress THEN EmptyString ELSE hm.ingress[key].Hostname

IngressDeleteMapByKey(hm, ing, key) ==
    [hm EXCEPT !.ingress = [k \in DOMAIN @ \ {key} |-> @[k]]]

RouteUpdateHostMap(hm, route, key) ==
    [hm EXCEPT !.route = (key :> IPHostname(route.IPAddr, route.Hostname)) @@ @]

RouteGetHostnameFromHostMap(hm, route, key) ==
    IF key \notin DOMAIN hm.route THEN EmptyString ELSE hm.route[key].Hostname

\* RouteMeta.DeleteMapByKey that leaves the map as it is.
RouteDeleteMapByKey_KeepsEntry(hm, route, key) == hm

RouteDeleteMapByKey(hm, route, key) ==
    [hm EXCEPT !.route = [k \in DOMAIN @ \ {key} |-> @[k]]]

\* The stores and the caches right after their construction; nothing has
\* been done to them yet.
InitIngest ==
    /\ store = [ingress |-> EmptyMap, route |-> EmptyMap, svc |-> EmptyMap]
    /\ hostMap = [ingress |-> EmptyMap, route |-> EmptyMap]
    /\ hist = [event |-> EmptyMap, remembered |-> [ingress |-> EmptyMap, route |-> EmptyMap]]

---------------------------------------------------------------------------
(* The work queues of the layers, the locks and the goroutines *)

\* utils.ObjectIngestionLayer and utils.GraphLayer, and the queue the retry
\* workers read.
ObjectIngestionLayer == "ObjectIngestionLayer"
GraphLayer == "GraphLayer"
RetryLayer == "RetryLayer"
QueueNames == {ObjectIngestionLayer, GraphLayer, RetryLayer}

\* Every queue empty, no key with the downstream layer (rest), none settled
\* (done: pushed downstream, gone: its object deleted), no failure counted.
NoKeys ==
    [q \in QueueNames |-> <<>>] @@ [rest |-> {}, done |-> {}, gone |-> {}, fails |-> EmptyMap]

RECURSIVE SplitSlash(_, _)
SplitSlash(s, cur) ==
    IF s = <<>> THEN <<cur>>
    ELSE IF Head(s) = 47 THEN <<cur>> \o SplitSlash(Tail(s), <<>>)
    ELSE SplitSlash(Tail(s), Append(cur, Head(s)))

\* utils.ExtractNamespaceObjectName: the two segments of "namespace/name",
\* no namespace for a key without "/", nothing for a key with more segments.
ExtractNamespaceObjectName(key) ==
    LET segments == SplitSlash(key, <<>>)
    IN  IF Len(segments) = 2 THEN <<segments[1], segments[2]>>
        ELSE IF Len(segments) = 1 THEN <<EmptyString, segments[1]>>
        ELSE <<EmptyString, EmptyString>>

\* nodes.PublishKeyToRestLayer: tenant/gsName is added at the end of the queue.
PublishKeyToRestLayer(tenant, gsName, key, sharedQueue) ==
    Append(sharedQueue, tenant \o Slash \o gsName)

\* SyncFromRetryLayer that publishes a key only if the queue does not hold it.
SyncFromRetryLayer_Dedup(qs, key) ==
    LET nsName == ExtractNamespaceObjectName(key)
    IN  [queues |-> IF \E i \in DOMAIN qs[GraphLayer] :
                          qs[GraphLayer][i] = nsName[1] \o Slash \o nsName[2]
                    THEN qs
                    ELSE [qs EXCEPT ![GraphLayer] =
                              PublishKeyToRestLayer(nsName[1], nsName[2], "retry", @)],
         ret |-> "nil"]

\* SyncFromRetryLayer that publishes to the queue of the ingestion layer.
SyncFromRetryLayer_OtherQueue(qs, key) ==
    LET nsName == ExtractNamespaceObjectName(key)
    IN  [queues |-> [qs EXCEPT ![ObjectIngestionLayer] =
                         PublishKeyToRestLayer(nsName[1], nsName[2], "retry", @)],
         ret |-> "nil"]

\* The queues after the call, and the error it returns.
SyncFromRetryLayer(qs, key) ==
    LET nsName == ExtractNamespaceObjectName(key)
        tenant == nsName[1]
        gsName == nsName[2]
    IN  [queues |-> [qs EXCEPT ![GraphLayer] = PublishKeyToRestLayer(tenant, gsName, "retry", @)],
         ret |-> "nil"]

\* A sync.RWMutex: the goroutine holding it for writing (or "none"), the
\* goroutines waiting to, and the goroutines holding it for reading.
FreeLock == [writer |-> "none", waiting |-> {}, readers |-> {}]

\* The goroutines, and the NamespaceFilter objects there can be at a time:
\* the live one, and one more per goroutine that still holds a pointer.
Threads == {"t1", "t2", "t3"}
NSObjects == {"ns1", "ns2", "ns3", "ns4"}

IdleThread == [call |-> "none", pc |-> 0, prog |-> <<>>, ns |-> "nil"]

\* No key in any queue, no lock held, no goroutine in a call, no
\* NamespaceFilter installed.
InitLayers ==
    /\ queues = NoKeys
    /\ locks = [G |-> FreeLock, N |-> [o \in NSObjects |-> FreeLock], live |-> "nil"]
    /\ th = [t \in Threads |-> IdleThread]

---------------------------------------------------------------------------
(* Calls made one after the other: specification Spec *)

\* No ApplyFilter evaluation in flight.
Idle ==
    [pc |-> "idle", kind |-> "none",
     cand |-> [Cluster |-> <<>>, Namespace |-> <<>>, Labels |-> NoLabels],
     holdsNS |-> FALSE, nsSame |-> FALSE, ret |-> FALSE]

Init ==
    /\ gf = GetNewGlobalFilter
    /\ op = [name |-> "none"]
    /\ lastWriter = "none"
    /\ panicked = FALSE
    /\ rd = Idle
    /\ seen = {}
    /\ InitIngest
    /\ InitLayers

\* The calls' effect on the filter and what they return.
DoAddToFilter(gdp) ==
    /\ ~ panicked
    /\ Len(gf.TrafficSplit) + Len(gdp.TrafficSplit) <= MaxLiveSplit
    /\ gf' = AddToFilter(gf, gdp)
    /\ op' = [name |-> "AddToFilter", gdp |-> gdp]
    /\ lastWriter' = "AddToFilter"
    /\ UNCHANGED panicked

\* Of the old policy the call reads the traffic split only.
DoUpdateGlobalFilter(oldTS, newGDP) ==
    LET oldGDP == GDP(NoLabels, NoLabels, <<>>, oldTS)
        r == UpdateGlobalFilter(gf, oldGDP, newGDP)
    IN  /\ ~ panicked
        /\ gf' = r.gf
        /\ op' = [name |-> "UpdateGlobalFilter", oldTS |-> oldTS, gdp |-> newGDP, ret |-> r.ret]
        /\ lastWriter' = "UpdateGlobalFilter"
        /\ UNCHANGED panicked

DoDeleteFromGlobalFilter ==
    /\ ~ panicked
    /\ gf' = DeleteFromGlobalFilter(gf)
    /\ op' = [name |-> "DeleteFromGlobalFilter"]
    /\ lastWriter' = "DeleteFromGlobalFilter"
    /\ UNCHANGED panicked

DoAddNSToNSFilter(cname, ns) ==
    LET r == AddNSToNSFilter(gf, cname, ns)
    IN  /\ ~ panicked
        /\ gf' = r.gf
        /\ op' = [name |-> "AddNSToNSFilter", cname |-> cname, ns |-> ns, ret |-> r.ret]
        /\ panicked' = (r.ret = "panic")
        /\ UNCHANGED lastWriter

CallAddToFilter(gdp) == DoAddToFilter(gdp) /\ UNCHANGED <<rd, seen, store, hostMap, hist, queues, locks, th>>

CallUpdateGlobalFilter(oldTS, newGDP) ==
    DoUpdateGlobalFilter(oldTS, newGDP) /\ UNCHANGED <<rd, seen, store, hostMap, hist, queues, locks, th>>

CallDeleteFromGlobalFilter == DoDeleteFromGlobalFilter /\ UNCHANGED <<rd, seen, store, hostMap, hist, queues, locks, th>>

CallAddNSToNSFilter(cname, ns) ==
    DoAddNSToNSFilter(cname, ns) /\ UNCHANGED <<rd, seen, store, hostMap, hist, queues, locks, th>>

CallApplyFilter(kind, cand) ==
    /\ ~ panicked
    /\ op' = [name |-> "ApplyFilter", kind |-> kind, cand |-> cand,
              ret |-> ApplyFilter(kind, gf, cand)]
    /\ UNCHANGED <<gf, lastWriter, panicked, rd, seen, store, hostMap, hist, queues, locks, th>>

CallIsClusterAllowed(cname) ==
    /\ ~ panicked
    /\ op' = [name |-> "IsClusterAllowed", cname |-> cname, ret |-> IsClusterAllowed(gf, cname)]
    /\ UNCHANGED <<gf, lastWriter, panicked, rd, seen, store, hostMap, hist, queues, locks, th>>

CallGetTrafficWeight(ns, cname) ==
    /\ ~ panicked
    /\ op' = [name |-> "GetTrafficWeight", ns |-> ns, cname |-> cname,
              ret |-> GetTrafficWeight(gf, ns, cname)]
    /\ UNCHANGED <<gf, lastWriter, panicked, rd, seen, store, hostMap, hist, queues, locks, th>>

Next ==
    \/ \E gdp \in Policies : CallAddToFilter(gdp)
    \/ \E oldTS \in OldSplitLists, newGDP \in Policies : CallUpdateGlobalFilter(oldTS, newGDP)
    \/ CallDeleteFromGlobalFilter
    \/ \E cname \in {c1, c2}, ns \in {n1} : CallAddNSToNSFilter(cname, ns)
    \/ \E kind \in Kinds, cand \in Candidates : CallApplyFilter(kind, cand)
    \/ \E cname \in {c1, c2} : CallIsClusterAllowed(cname)
    \/ \E ns \in {n1, n2}, cname \in {c1, c2} : CallGetTrafficWeight(ns, cname)

Spec == Init /\ [][Next]_vars

---------------------------------------------------------------------------
(* ApplyFilter as a function of the filter's fields: specification SpecApply *)

\* Namespace filters with a nil map, an empty map and maps that select n1 or
\* n2 for c1, or n1 for c2.
SelectedNSMaps ==
    {NilMap, [made |-> TRUE, entries |-> NoLabels],
     [made |-> TRUE, entries |-> (c1 :> <<n1>>)],
     [made |-> TRUE, entries |-> (c1 :> <<n2, n1>>)],
     [made |-> TRUE, entries |-> (c1 :> <<n2>>)],
     [made |-> TRUE, entries |-> (c2 :> <<n1>>)]}

FilterStates ==
    {[AppFilter |-> a, NSFilter |-> n, TrafficSplit |-> <<>>,
      ApplicableClusters |-> mc, Checksum |-> Zero32] :
        a \in {<<>>, <<[Key |-> s_a, Value |-> s_bc]>>, <<[Key |-> s_a, Value |-> s_c]>>},
        n \in {<<>>} \cup {<<[createNewNSFilter(LabelA) EXCEPT !.SelectedNS = m]>> : m \in SelectedNSMaps},
        mc \in MatchClusterLists}

InitApply ==
    /\ gf \in {[f EXCEPT !.Checksum = ComputeChecksum(f)] : f \in FilterStates}
    /\ op = [name |-> "none"]
    /\ lastWriter = "none"
    /\ panicked = FALSE
    /\ rd = Idle
    /\ seen = {}
    /\ InitIngest
    /\ InitLayers

NextApply == \E kind \in Kinds, cand \in Candidates : CallApplyFilter(kind, cand)

SpecApply == InitApply /\ [][NextApply]_vars

---------------------------------------------------------------------------
(* isTrafficWeightChanged as a function of two lists: specification SpecTW *)

\* Longest traffic-split list and largest weight the function is given.
MaxSplit == 2
MaxWeight == 2

SplitInputs ==
    UNION {[1..k -> [Cluster : {c1, c2}, Weight : 1..MaxWeight]] : k \in 0..MaxSplit}

InitTW ==
    /\ gf = GetNewGlobalFilter
    /\ op \in {[name |-> "input", new |-> n, old |-> o] : n \in SplitInputs, o \in SplitInputs}
    /\ lastWriter = "none"
    /\ panicked = FALSE
    /\ rd = Idle
    /\ seen = {}
    /\ InitIngest
    /\ InitLayers

CallIsTrafficWeightChanged ==
    /\ op.name = "input"
    /\ op' = [name |-> "isTrafficWeightChanged", new |-> op.new, old |-> op.old,
              ret |-> isTrafficWeightChanged(GDP(NoLabels, NoLabels, <<>>, op.new),
                                             GDP(NoLabels, NoLabels, <<>>, op.old))]
    /\ UNCHANGED <<gf, lastWriter, panicked, rd, seen, store, hostMap, hist, queues, locks, th>>

NextTW == CallIsTrafficWeightChanged

SpecTW == InitTW /\ [][NextTW]_vars

---------------------------------------------------------------------------
(* The filter engine's decision, as the specification words it *)

InList(x, list) == \E i \in DOMAIN list : list[i] = x

HasLabel(labels, key, value) == key \in DOMAIN labels /\ labels[key] = value

\* The ordered decision of the filter engine on a candidate.
Decision(f, c) ==
    LET labelMatch == HasLabel(c.Labels, f.AppFilter[1].Key, f.AppFilter[1].Value)
        selected == f.NSFilter[1].SelectedNS.entries
    IN  IF ~ InList(c.Cluster, f.ApplicableClusters) THEN FALSE
        ELSE IF f.NSFilter # <<>>
             THEN IF c.Cluster \notin DOMAIN selected THEN FALSE
                  ELSE IF ~ InList(c.Namespace, selected[c.Cluster]) THEN FALSE
                  ELSE f.AppFilter = <<>> \/ labelMatch
             ELSE f.AppFilter # <<>> /\ labelMatch

---------------------------------------------------------------------------
(* One ApplyFilter evaluation beside the writers: specification SpecConc *)

ConcPolicies ==
    {GDP(NoLabels, NoLabels, <<c1>>, <<>>), GDP(LabelA, NoLabels, <<c1>>, <<>>),
     GDP(NoLabels, LabelA, <<c1>>, <<>>), GDP(LabelA, LabelA, <<c1>>, <<>>),
     GDP(LabelA, NoLabels, <<>>, <<>>)}

InFlight == rd.pc \notin {"idle", "done", "panic"}

\* RouteMeta.ApplyFilter defers RUnlock of the engine-wide lock to its
\* return; IngressHostMeta.ApplyFilter calls RUnlock right after RLock.
HoldsGlobalRLock == InFlight /\ rd.kind = "route"

Done(r, result) == [r EXCEPT !.pc = "done", !.ret = result, !.holdsNS = FALSE]

\* A nil pointer dereference; the deferred unlocks run while the panic unwinds.
Panic(r) == [r EXCEPT !.pc = "panic", !.holdsNS = FALSE]

\* One step of the evaluation: up to and including its next read of a field
\* of the global filter.  A read made without the lock returns the value the
\* field has at that moment.
StepOf(r, f) ==
    CASE r.pc = "cluster" ->
            IF ~ PresentInList(r.cand.Cluster, f.ApplicableClusters) THEN Done(r, FALSE)
            ELSE [r EXCEPT !.pc = "nsptr"]
      [] r.pc = "nsptr" ->
            IF f.NSFilter # <<>> THEN [r EXCEPT !.pc = "nslock", !.nsSame = TRUE]
            ELSE [r EXCEPT !.pc = "app1"]
      [] r.pc = "nslock" -> [r EXCEPT !.pc = "selected", !.holdsNS = TRUE]
      [] r.pc = "selected" ->
            IF f.NSFilter = <<>> THEN Panic(r)
            ELSE LET sel == f.NSFilter[1].SelectedNS
                 IN  IF r.cand.Cluster \notin DOMAIN sel.entries THEN Done(r, FALSE)
                     ELSE IF PresentInList(r.cand.Namespace, sel.entries[r.cand.Cluster])
                          THEN [r EXCEPT !.pc = "app2"]
                          ELSE Done(r, FALSE)
      [] r.pc = "app2" ->
            IF f.AppFilter = <<>> THEN Done(r, TRUE)
            ELSE Done(r, applyAppFilter(r.cand.Labels, f.AppFilter[1]))
      [] r.pc = "app1" ->
            IF f.AppFilter = <<>> THEN Done(r, FALSE) ELSE [r EXCEPT !.pc = "app3"]
      [] r.pc = "app3" ->
            IF DOMAIN r.cand.Labels = {} THEN Done(r, FALSE)
            ELSE IF f.AppFilter = <<>> THEN Panic(r)
            ELSE Done(r, applyAppFilter(r.cand.Labels, f.AppFilter[1]))

\* The call: GetGlobalFilter and RLock (and, for an ingress host, RUnlock).
StartApplyFilter(kind, cand) ==
    /\ ~ panicked
    /\ rd.pc \in {"idle", "done"}
    /\ rd' = [Idle EXCEPT !.pc = "cluster", !.kind = kind, !.cand = cand]
    /\ seen' = {Decision(gf, cand)}
    /\ UNCHANGED <<gf, op, lastWriter, panicked, store, hostMap, hist, queues, locks, th>>

StepApplyFilter ==
    /\ ~ panicked
    /\ InFlight
    /\ rd' = StepOf(rd, gf)
    /\ panicked' = (rd'.pc = "panic")
    /\ UNCHANGED <<gf, op, lastWriter, seen, store, hostMap, hist, queues, locks, th>>

\* A writer takes the engine-wide lock in exclusive mode.
WriterMayRun == ~ HoldsGlobalRLock

\* What a writer's step means for the evaluation in flight: the filter state
\* it leaves existed during the evaluation, and the namespace filter the
\* evaluation has locked may no longer be the filter's.
BesideReader(nsReassigned) ==
    /\ rd' = IF InFlight THEN [rd EXCEPT !.nsSame = @ /\ ~ nsReassigned] ELSE rd
    /\ seen' = IF InFlight THEN seen \cup {Decision(gf', rd.cand)} ELSE seen
    /\ UNCHANGED <<store, hostMap, hist, queues, locks, th>>

ConcAddToFilter(gdp) ==
    /\ WriterMayRun
    /\ DoAddToFilter(gdp)
    /\ BesideReader(Cardinality(DOMAIN gdp.NamespaceSelector) = 1)

ConcUpdateGlobalFilter(oldTS, newGDP) ==
    /\ WriterMayRun
    /\ DoUpdateGlobalFilter(oldTS, newGDP)
    /\ BesideReader(op'.ret[1])

ConcDeleteFromGlobalFilter ==
    /\ WriterMayRun
    /\ DoDeleteFromGlobalFilter
    /\ BesideReader(TRUE)

\* AddNS takes the namespace filter's own lock in exclusive mode.
ConcAddNSToNSFilter(cname, ns) ==
    /\ WriterMayRun
    /\ ~ (InFlight /\ rd.holdsNS /\ rd.nsSame)
    /\ DoAddNSToNSFilter(cname, ns)
    /\ BesideReader(FALSE)

NextConc ==
    \/ \E kind \in Kinds, cand \in Candidates : StartApplyFilter(kind, cand)
    \/ StepApplyFilter
    \/ \E gdp \in ConcPolicies : ConcAddToFilter(gdp)
    \/ \E gdp \in ConcPolicies : ConcUpdateGlobalFilter(<<>>, gdp)
    \/ ConcDeleteFromGlobalFilter
    \/ \E cname \in {c1} : ConcAddNSToNSFilter(cname, n1)

SpecConc == Init /\ [][NextConc]_vars

---------------------------------------------------------------------------
(* ComputeChecksum as a function of the filter's fields: specification SpecCk *)

\* Longest list of applicable clusters and of traffic-split entries.
MaxCkLen == 2

SeqsUpTo(S, n) == UNION {[1..k -> S] : k \in 0..n}

\* Filters with every combination of the two selectors, of a cluster list
\* and of a traffic split (lists that repeat an entry included), their
\* checksum not computed yet.
CkFilters ==
    {[AppFilter |-> a, NSFilter |-> n, TrafficSplit |-> ts,
      ApplicableClusters |-> mc, Checksum |-> Zero32] :
        a \in {<<>>, <<[Key |-> s_a, Value |-> s_bc]>>},
        n \in {<<>>, <<createNewNSFilter(LabelAB)>>},
        mc \in SeqsUpTo({c1, c2}, MaxCkLen),
        ts \in SeqsUpTo([ClusterName : {c1, c2}, Weight : {1, 2}], MaxCkLen)}

InitCk ==
    /\ gf \in CkFilters
    /\ op = [name |-> "input"]
    /\ lastWriter = "none"
    /\ panicked = FALSE
    /\ rd = Idle
    /\ seen = {}
    /\ InitIngest
    /\ InitLayers

CallComputeChecksum ==
    /\ op.name = "input"
    /\ gf' = [gf EXCEPT !.Checksum = ComputeChecksum(gf)]
    /\ op' = [name |-> "ComputeChecksum"]
    /\ UNCHANGED <<lastWriter, panicked, rd, seen, store, hostMap, hist, queues, locks, th>>

NextCk == CallComputeChecksum

SpecCk == InitCk /\ [][NextCk]_vars

---------------------------------------------------------------------------
(* Add/update and delete events on the cluster stores: specification SpecStore *)

s1 == <<115, 49>>                                   \* "s1"

\* Cluster names are free-form strings; these two read like the names of
\* ingress host objects ("i1/h1", "i2/h1").
c_i1h1 == i1 \o Slash \o h1
c_i2h1 == i2 \o Slash \o h1

\* Two versions of the route n1/r1: an insecure one and, after an update, a
\* passthrough one with another host.
StoreRoutes ==
    {Route(r1, n1, h1, <<>>, EmptyString, NoLabels, ip1),
     Route(r1, n1, h2, <<[Termination |-> PassthroughRoute]>>, EmptyString, NoLabels, ip2)}

StoreServices == {Service(s1, n1, h1, ip1)}

IngressOfHosts(name, hosts) ==
    Ingress(name, n1, NoLabels, <<>>, <<>>,
            [k \in DOMAIN hosts |-> [Hostname |-> hosts[k], IPAddr |-> ip1]])

\* The ingress hosts of the ingresses i1 and i2, as GetIngressHostMeta
\* builds them for the cluster they are observed in.
StoreIngHosts ==
    {GetIngressHostMeta(IngressOfHosts(i1, <<h1>>), c1)[1],
     GetIngressHostMeta(IngressOfHosts(i1, <<h1>>), c_i2h1)[1],
     GetIngressHostMeta(IngressOfHosts(i2, <<h1>>), c_i1h1)[1]}

\* What the store pointer handed to a Delete operation points to.
StorePtr(nilStore, kind) == IF nilStore THEN <<>> ELSE <<store[kind]>>

\* The caller's view of one event: the operation, the object it names and,
\* for an add/update, the metadata it carries.
Ingested(name, kind, key, nilStore, after, event) ==
    /\ ~ panicked
    /\ store' = IF after = <<>> THEN store ELSE [store EXCEPT ![kind] = after[1]]
    /\ hist' = IF nilStore THEN hist
               ELSE [hist EXCEPT !.event = (<<kind>> \o key :> event) @@ @]
    /\ op' = [name |-> name, kind |-> kind, key |-> key, nilStore |-> nilStore]
    /\ UNCHANGED <<gf, lastWriter, panicked, rd, seen, hostMap, queues, locks, th>>

CallAddOrUpdateRouteStore(route, cname) ==
    Ingested("AddOrUpdateRouteStore", "route", <<cname, route.Namespace, route.Name>>, FALSE,
             <<AddOrUpdateRouteStore(store.route, route, cname)>>,
             <<"add", GetRouteMeta(route, cname)>>)

CallDeleteFromRouteStore(nilStore, route, cname) ==
    Ingested("DeleteFromRouteStore", "route", <<cname, route.Namespace, route.Name>>, nilStore,
             DeleteFromRouteStore(StorePtr(nilStore, "route"), route, cname),
             <<"delete">>)

CallAddOrUpdateIngressStore(ingHost, cname) ==
    Ingested("AddOrUpdateIngressStore", "ingress", <<cname, ingHost.Namespace, ingHost.ObjName>>,
             FALSE,
             <<AddOrUpdateIngressStore(store.ingress, ingHost, cname)>>,
             <<"add", ingHost>>)

CallDeleteFromIngressStore(nilStore, ingHost, cname) ==
    Ingested("DeleteFromIngressStore", "ingress", <<cname, ingHost.Namespace, ingHost.ObjName>>,
             nilStore,
             DeleteFromIngressStore(StorePtr(nilStore, "ingress"), ingHost, cname),
             <<"delete">>)

CallAddOrUpdateLBSvcStore(svc, cname) ==
    Ingested("AddOrUpdateLBSvcStore", "svc", <<cname, svc.Namespace, svc.Name>>, FALSE,
             <<AddOrUpdateLBSvcStore(store.svc, svc, cname)>>,
             <<"add", GetSvcMeta(svc, cname)>>)

CallDeleteFromLBSvcStore(nilStore, svc, cname) ==
    Ingested("DeleteFromLBSvcStore", "svc", <<cname, svc.Namespace, svc.Name>>, nilStore,
             DeleteFromLBSvcStore(StorePtr(nilStore, "svc"), svc, cname),
             <<"delete">>)

\* The watchers hand an ingress host over with the cluster it was built for.
NextStore ==
    \/ \E route \in StoreRoutes, cname \in {c1, c2} : CallAddOrUpdateRouteStore(route, cname)
    \/ \E nilStore \in BOOLEAN, route \in StoreRoutes, cname \in {c1, c2} :
          CallDeleteFromRouteStore(nilStore, route, cname)
    \/ \E ingHost \in StoreIngHosts : CallAddOrUpdateIngressStore(ingHost, ingHost.Cluster)
    \/ \E nilStore \in BOOLEAN, ingHost \in StoreIngHosts :
          CallDeleteFromIngressStore(nilStore, ingHost, ingHost.Cluster)
    \/ \E svc \in StoreServices : CallAddOrUpdateLBSvcStore(svc, c1)
    \/ \E nilStore \in BOOLEAN, svc \in StoreServices : CallDeleteFromLBSvcStore(nilStore, svc, c1)

SpecStore == Init /\ [][NextStore]_vars

---------------------------------------------------------------------------
(* The host memory caches beside the stores: specification SpecHost *)

k1 == <<107, 49>>                                   \* "k1"
k2 == <<107, 50>>                                   \* "k2"

HostKeys == {k1, k2}

\* The objects whose host is remembered: per kind one with host h1 and one
\* with host h2.
HostObjs(kind) ==
    IF kind = "ingress"
    THEN {GetIngressHostMeta(IngressOfHosts(i1, <<h1, h2>>), c1)[k] : k \in {1, 2}}
    ELSE {GetRouteMeta(route, c1) : route \in StoreRoutes}

UpdateHostMap(hm, kind, obj, key) ==
    IF kind = "ingress" THEN IngressUpdateHostMap(hm, obj, key)
    ELSE RouteUpdateHostMap(hm, obj, key)

GetHostnameFromHostMap(hm, kind, obj, key) ==
    IF kind = "ingress" THEN IngressGetHostnameFromHostMap(hm, obj, key)
    ELSE RouteGetHostnameFromHostMap(hm, obj, key)

DeleteMapByKey(hm, kind, obj, key) ==
    IF kind = "ingress" THEN IngressDeleteMapByKey(hm, obj, key)
    ELSE RouteDeleteMapByKey(hm, obj, key)

CallUpdateHostMap(kind, obj, key) ==
    /\ ~ panicked
    /\ hostMap' = UpdateHostMap(hostMap, kind, obj, key)
    /\ hist' = [hist EXCEPT !.remembered[kind] = (key :> obj.Hostname) @@ @]
    /\ op' = [name |-> "UpdateHostMap", kind |-> kind, key |-> key]
    /\ UNCHANGED <<gf, lastWriter, panicked, rd, seen, store, queues, locks, th>>

CallDeleteMapByKey(kind, obj, key) ==
    /\ ~ panicked
    /\ hostMap' = DeleteMapByKey(hostMap, kind, obj, key)
    /\ hist' = [hist EXCEPT !.remembered[kind] = [k \in DOMAIN @ \ {key} |-> @[k]]]
    /\ op' = [name |-> "DeleteMapByKey", kind |-> kind, key |-> key]
    /\ UNCHANGED <<gf, lastWriter, panicked, rd, seen, store, queues, locks, th>>

CallGetHostnameFromHostMap(kind, obj, key) ==
    /\ ~ panicked
    /\ op' = [name |-> "GetHostnameFromHostMap", kind |-> kind, key |-> key,
              ret |-> GetHostnameFromHostMap(hostMap, kind, obj, key)]
    /\ UNCHANGED <<gf, lastWriter, panicked, rd, seen, store, hostMap, hist, queues, locks, th>>

NextHost ==
    \/ \E kind \in Kinds : \E obj \in HostObjs(kind), key \in HostKeys :
          CallUpdateHostMap(kind, obj, key)
    \/ \E kind \in Kinds : \E obj \in HostObjs(kind), key \in HostKeys :
          CallDeleteMapByKey(kind, obj, key)
    \/ \E kind \in Kinds : \E obj \in HostObjs(kind), key \in HostKeys :
          CallGetHostnameFromHostMap(kind, obj, key)
    \/ \E route \in StoreRoutes : CallAddOrUpdateRouteStore(route, c1)
    \/ \E route \in StoreRoutes : CallDeleteFromRouteStore(FALSE, route, c1)
    \/ \E ingHost \in HostObjs("ingress") : CallAddOrUpdateIngressStore(ingHost, ingHost.Cluster)
    \/ \E ingHost \in HostObjs("ingress") : CallDeleteFromIngressStore(FALSE, ingHost, ingHost.Cluster)

SpecHost == Init /\ [][NextHost]_vars

---------------------------------------------------------------------------
(* Metadata construction and the getters: specification SpecMeta *)

\* Longest list of rules of an ingress.
MaxRules == 2

\* Routes without a TLS block, with edge termination and with passthrough
\* termination, with and without a declared path.
MetaRoutes ==
    {Route(r1, n1, h1, tls, path, labels, ip1) :
        tls \in {<<>>, <<[Termination |-> EdgeRoute]>>, <<[Termination |-> PassthroughRoute]>>},
        path \in {EmptyString, Slash, p_a},
        labels \in {NoLabels, LabelA}}

\* rule.HTTP: nil, or a list of paths (empty, with "" and "/", with a path
\* twice).
RuleHTTP ==
    {<<>>, <<<<>>>>, <<<<EmptyString>>>>, <<<<p_a>>>>, <<<<p_b>>>>, <<<<p_a, p_b>>>>,
     <<<<EmptyString, Slash>>>>, <<<<p_a, p_a>>>>}

IngressRules == [Host : {h1, h2}, HTTP : RuleHTTP]

HostIP(host, ip) == [Hostname |-> host, IPAddr |-> ip]

\* Spec.TLS and the hosts with an IP address in the status.
TLSAndHostIPs ==
    {<< <<>>, <<>> >>,
     << <<>>, <<HostIP(h1, ip1)>> >>,
     << <<[Hosts |-> <<h1>>]>>, <<HostIP(h1, ip1), HostIP(h2, ip2)>> >>,
     << <<[Hosts |-> <<h2, h1>>], [Hosts |-> <<h1>>]>>, <<HostIP(h2, ip2), HostIP(h1, ip1)>> >>}

MetaIngresses ==
    {Ingress(i1, n1, LabelA, rules, ti[1], ti[2]) :
        rules \in SeqsUpTo(IngressRules, MaxRules), ti \in TLSAndHostIPs}

InitMeta ==
    /\ gf = GetNewGlobalFilter
    /\ op \in {[name |-> "input", kind |-> "route", src |-> r] : r \in MetaRoutes}
              \cup {[name |-> "input", kind |-> "ingress", src |-> i] : i \in MetaIngresses}
    /\ lastWriter = "none"
    /\ panicked = FALSE
    /\ rd = Idle
    /\ seen = {}
    /\ InitIngest
    /\ InitLayers

CallGetRouteMeta ==
    /\ op.name = "input" /\ op.kind = "route"
    /\ op' = [name |-> "GetRouteMeta", kind |-> "route", src |-> op.src,
              metas |-> <<GetRouteMeta(op.src, c1)>>]
    /\ UNCHANGED <<gf, lastWriter, panicked, rd, seen, store, hostMap, hist, queues, locks, th>>

CallGetIngressHostMeta ==
    /\ op.name = "input" /\ op.kind = "ingress"
    /\ op' = [name |-> "GetIngressHostMeta", kind |-> "ingress", src |-> op.src,
              metas |-> GetIngressHostMeta(op.src, c1)]
    /\ UNCHANGED <<gf, lastWriter, panicked, rd, seen, store, hostMap, hist, queues, locks, th>>

GetPort(kind, obj) == IF kind = "route" THEN RouteGetPort(obj) ELSE IngressGetPort(obj)

GetProtocol(kind, obj) ==
    IF kind = "route" THEN RouteGetProtocol(obj) ELSE IngressGetProtocol(obj)

GetPaths(kind, obj) == IF kind = "route" THEN RouteGetPaths(obj) ELSE IngressGetPaths(obj)

GetTLS(kind, obj) == IF kind = "route" THEN RouteGetTLS(obj) ELSE IngressGetTLS(obj)

IsPassthrough(kind, obj) ==
    IF kind = "route" THEN RouteIsPassthrough(obj) ELSE IngressIsPassthrough(obj)

\* A getter called on the k-th object the construction returned.
Got(name, k, ret) ==
    /\ op.name \in {"GetRouteMeta", "GetIngressHostMeta"}
    /\ k \in DOMAIN op.metas
    /\ op' = [name |-> name, kind |-> op.kind, src |-> op.src, meta |-> op.metas[k], ret |-> ret]
    /\ UNCHANGED <<gf, lastWriter, panicked, rd, seen, store, hostMap, hist, queues, locks, th>>

CallGetPort(k) == Got("GetPort", k, GetPort(op.kind, op.metas[k]))

CallGetProtocol(k) == Got("GetProtocol", k, GetProtocol(op.kind, op.metas[k]))

CallGetPaths(k) == Got("GetPaths", k, GetPaths(op.kind, op.metas[k]))

CallGetTLS(k) == Got("GetTLS", k, GetTLS(op.kind, op.metas[k]))

CallIsPassthrough(k) == Got("IsPassthrough", k, IsPassthrough(op.kind, op.metas[k]))

NextMeta ==
    \/ CallGetRouteMeta
    \/ CallGetIngressHostMeta
    \/ \E k \in {1, 2} : CallGetPort(k)
    \/ \E k \in {1, 2} : CallGetProtocol(k)
    \/ \E k \in {1, 2} : CallGetPaths(k)
    \/ \E k \in {1, 2} : CallGetTLS(k)
    \/ \E k \in {1, 2} : CallIsPassthrough(k)

SpecMeta == InitMeta /\ [][NextMeta]_vars

---------------------------------------------------------------------------
(* The checksum of an ingress host: specification SpecIngCk *)

\* Longest path list of an ingress host.
MaxPaths == 3

p_ab == <<47, 97, 47, 98>>                          \* "/a/b"

\* Path lists as getPathsForHost builds them: not empty, no path twice.
PathLists ==
    {pl \in SeqsUpTo({Slash, p_a, p_b, p_ab}, MaxPaths) :
        /\ pl # <<>>
        /\ \A i, j \in DOMAIN pl : pl[i] = pl[j] => i = j}

CkIngHosts ==
    {[IngName |-> i1, Namespace |-> n1, Hostname |-> h, IPAddr |-> ip1, Cluster |-> c1,
      ObjName |-> i1 \o Slash \o h, Labels |-> l, Paths |-> pl, TLS |-> FALSE] :
        h \in {h1, h2}, l \in {NoLabels, LabelA}, pl \in PathLists}

\* op.ing is the metadata the caller holds and op.built its paths as they
\* were built; a copy in the store shares the array of op.ing.Paths.
InitIngCk ==
    /\ gf = GetNewGlobalFilter
    /\ op \in {[name |-> "input", ing |-> ing, built |-> ing.Paths] : ing \in CkIngHosts}
    /\ lastWriter = "none"
    /\ panicked = FALSE
    /\ rd = Idle
    /\ seen = {}
    /\ InitIngest
    /\ InitLayers

IngStoreKey(ing) == <<ing.Cluster, ing.Namespace, ing.ObjName>>

\* The copy of the metadata is put in the store.
CkAddOrUpdateIngressStore ==
    /\ IngStoreKey(op.ing) \notin DOMAIN store.ingress
    /\ store' = [store EXCEPT !.ingress = AddOrUpdateIngressStore(@, op.ing, op.ing.Cluster)]
    /\ op' = [op EXCEPT !.name = "AddOrUpdateIngressStore"]
    /\ UNCHANGED <<gf, lastWriter, panicked, rd, seen, hostMap, hist, queues, locks, th>>

\* GetIngressHostCksum on the caller's metadata (onStored = FALSE) or on the
\* copy in the store: either way the one array of paths is sorted.
CallGetIngressHostCksum(onStored) ==
    /\ onStored => IngStoreKey(op.ing) \in DOMAIN store.ingress
    /\ LET ing == IF onStored THEN store.ingress[IngStoreKey(op.ing)] ELSE op.ing
       IN  /\ op' = [name |-> "GetIngressHostCksum", built |-> op.built,
                     ing |-> [op.ing EXCEPT !.Paths = PathsAfterCksum(ing)],
                     ret |-> GetIngressHostCksum(ing)]
           /\ store' = [store EXCEPT !.ingress =
                            [k \in DOMAIN @ |-> [@[k] EXCEPT !.Paths = PathsAfterCksum(ing)]]]
    /\ UNCHANGED <<gf, lastWriter, panicked, rd, seen, hostMap, hist, queues, locks, th>>

CkGetPaths(onStored) ==
    /\ onStored => IngStoreKey(op.ing) \in DOMAIN store.ingress
    /\ LET ing == IF onStored THEN store.ingress[IngStoreKey(op.ing)] ELSE op.ing
       IN  op' = [name |-> "GetPaths", built |-> op.built, ing |-> op.ing,
                  ret |-> IngressGetPaths(ing)]
    /\ UNCHANGED <<gf, lastWriter, panicked, rd, seen, store, hostMap, hist, queues, locks, th>>

NextIngCk ==
    \/ CkAddOrUpdateIngressStore
    \/ \E onStored \in BOOLEAN : CallGetIngressHostCksum(onStored)
    \/ \E onStored \in BOOLEAN : CkGetPaths(onStored)

SpecIngCk == InitIngCk /\ [][NextIngCk]_vars

---------------------------------------------------------------------------
(* Calls of the retry layer: specification SpecRetry; the layers around it *)
(* with their workers: specification SpecRetryFair                        *)

\* Longest graph-layer queue a call of SyncFromRetryLayer is made on.
MaxQueue == 4

\* Most failures counted per key; further failures leave the count there.
MaxFails == 2

gs1 == <<110, 49, 47, 103, 49>>                     \* "n1/g1"
gs2 == <<110, 50, 47, 103, 49>>                     \* "n2/g1"
gsBare == <<103, 49>>                               \* "g1"
gsLong == <<110, 49, 47, 103, 49, 47, 104, 49>>     \* "n1/g1/h1"

\* The keys SyncFromRetryLayer is called with, and those of the form
\* namespace/name, which the layers hand to one another.
AnyKeys == {gs1, gs2, gsBare, gsLong}
LayerKeys == {gs1, gs2}

CallSyncFromRetryLayer(key) ==
    /\ Len(queues[GraphLayer]) < MaxQueue
    /\ LET r == SyncFromRetryLayer(queues, key)
       IN  /\ queues' = r.queues
           /\ op' = [name |-> "SyncFromRetryLayer", key |-> key, ret |-> r.ret]
    /\ UNCHANGED <<gf, lastWriter, panicked, rd, seen, store, hostMap, hist, locks, th>>

NextRetry == \E key \in AnyKeys : CallSyncFromRetryLayer(key)

SpecRetry == Init /\ [][NextRetry]_vars

\* Every key is with the downstream layer, which works on it.
InitRetryFair ==
    /\ gf = GetNewGlobalFilter
    /\ op = [name |-> "none"]
    /\ lastWriter = "none"
    /\ panicked = FALSE
    /\ rd = Idle
    /\ seen = {}
    /\ InitIngest
    /\ queues = [NoKeys EXCEPT !.rest = LayerKeys, !.fails = [k \in LayerKeys |-> 0]]
    /\ locks = [G |-> FreeLock, N |-> [o \in NSObjects |-> FreeLock], live |-> "nil"]
    /\ th = [t \in Threads |-> IdleThread]

LayerStep(name, key, qs) ==
    /\ queues' = qs
    /\ op' = [name |-> name, key |-> key]
    /\ UNCHANGED <<gf, lastWriter, panicked, rd, seen, store, hostMap, hist, locks, th>>

\* The downstream operation on a key fails: the key goes to the retry layer.
RestFails(key) ==
    /\ key \in queues.rest
    /\ LayerStep("RestFails", key,
                 [queues EXCEPT !.rest = @ \ {key},
                                ![RetryLayer] = Append(@, key),
                                !.fails[key] = IF @ < MaxFails THEN @ + 1 ELSE @])

RestSucceeds(key) ==
    /\ key \in queues.rest
    /\ LayerStep("RestSucceeds", key, [queues EXCEPT !.rest = @ \ {key}, !.done = @ \cup {key}])

\* The object of a key is deleted: its key is not worked on any more.
ObjectDeleted(key) ==
    /\ key \in queues.rest
    /\ LayerStep("ObjectDeleted", key, [queues EXCEPT !.rest = @ \ {key}, !.gone = @ \cup {key}])

\* A retry worker takes the next key of its queue and calls SyncFromRetryLayer.
RetryWorker ==
    /\ queues[RetryLayer] # <<>>
    /\ LET key == Head(queues[RetryLayer])
       IN  LayerStep("RetryWorker", key,
                     SyncFromRetryLayer([queues EXCEPT ![RetryLayer] = Tail(@)], key).queues)

\* A worker of the graph-layer queue takes the next key for a full pass and
\* hands it downstream.
GraphWorker ==
    /\ queues[GraphLayer] # <<>>
    /\ LET key == Head(queues[GraphLayer])
       IN  LayerStep("GraphWorker", key,
                     [queues EXCEPT ![GraphLayer] = Tail(@), !.rest = @ \cup {key}])

NextRetryFair ==
    \/ \E key \in LayerKeys : RestFails(key)
    \/ \E key \in LayerKeys : RestSucceeds(key)
    \/ \E key \in LayerKeys : ObjectDeleted(key)
    \/ RetryWorker
    \/ GraphWorker

\* The workers keep being scheduled.
SpecRetryFair ==
    /\ InitRetryFair
    /\ [][NextRetryFair]_vars
    /\ WF_vars(RetryWorker)
    /\ WF_vars(GraphWorker)

---------------------------------------------------------------------------
(* The locks the calls on the global filter take: specification SpecLock *)

Ins(ins, arg) == [ins |-> ins, arg |-> arg]

\* The calls, AddToFilter with and without a namespace selector of one pair,
\* UpdateGlobalFilter by what it installs.
LockCalls ==
    {"IngressApplyFilter", "RouteApplyFilter", "GetNSFilterLabel", "GetTrafficWeight",
     "AddNSToNSFilter", "AddToFilter", "AddToFilterNS", "UpdateGlobalFilterSame",
     "UpdateGlobalFilterNS", "UpdateGlobalFilterNoNS", "DeleteFromGlobalFilter"}

RouteLocks ==
    <<Ins("RLock", "G"), Ins("LoadNS", 2), Ins("RLock", "N"), Ins("RUnlock", "N"),
      Ins("RUnlock", "G")>>

\* The locks of a call in the order it takes and releases them; a deferred
\* unlock is at the place of the return, also when the call panics.  G is
\* gf.GlobalLock, N the Lock of the NamespaceFilter the call has loaded from
\* gf.NSFilter; LoadNS skips its arg next steps when gf.NSFilter is nil; SetNS
\* assigns gf.NSFilter.  The variant of IngressHostMeta.ApplyFilter here
\* takes the engine-wide lock again while it holds the filter's own.
LockProgram_GlobalInside(call) ==
    CASE call = "IngressApplyFilter" ->
            <<Ins("LoadNS", 4), Ins("RLock", "N"), Ins("RLock", "G"), Ins("RUnlock", "G"),
              Ins("RUnlock", "N")>>
      [] call \in {"RouteApplyFilter", "GetNSFilterLabel"} -> RouteLocks
      [] call = "GetTrafficWeight" -> <<Ins("RLock", "G"), Ins("RUnlock", "G")>>
      [] call = "AddNSToNSFilter" ->
            <<Ins("Lock", "G"), Ins("LoadNS", 2), Ins("Lock", "N"), Ins("Unlock", "N"),
              Ins("Unlock", "G")>>
      [] call = "AddToFilter" ->
            <<Ins("Lock", "G"), Ins("LoadNS", 2), Ins("RLock", "N"), Ins("RUnlock", "N"),
              Ins("Unlock", "G")>>
      [] call = "AddToFilterNS" ->
            <<Ins("Lock", "G"), Ins("SetNS", "new"), Ins("LoadNS", 2), Ins("RLock", "N"),
              Ins("RUnlock", "N"), Ins("Unlock", "G")>>
      [] call = "UpdateGlobalFilterSame" -> <<Ins("Lock", "G"), Ins("Unlock", "G")>>
      [] call = "UpdateGlobalFilterNS" ->
            <<Ins("Lock", "G"), Ins("SetNS", "new"), Ins("Unlock", "G")>>
      [] call \in {"UpdateGlobalFilterNoNS", "DeleteFromGlobalFilter"} ->
            <<Ins("Lock", "G"), Ins("SetNS", "nil"), Ins("Unlock", "G")>>

LockProgram(call) ==
    CASE call = "IngressApplyFilter" ->
            \* RLock and RUnlock at once, then the filter's lock to the return
            <<Ins("RLock", "G"), Ins("RUnlock", "G"), Ins("LoadNS", 2), Ins("RLock", "N"),
              Ins("RUnlock", "N")>>
      [] call \in {"RouteApplyFilter", "GetNSFilterLabel"} -> RouteLocks
      [] call = "GetTrafficWeight" -> <<Ins("RLock", "G"), Ins("RUnlock", "G")>>
      [] call = "AddNSToNSFilter" ->
            \* AddNS takes the filter's lock while the engine-wide lock is held
            <<Ins("Lock", "G"), Ins("LoadNS", 2), Ins("Lock", "N"), Ins("Unlock", "N"),
              Ins("Unlock", "G")>>
      [] call = "AddToFilter" ->
            \* ComputeChecksum calls gf.NSFilter.GetChecksum
            <<Ins("Lock", "G"), Ins("LoadNS", 2), Ins("RLock", "N"), Ins("RUnlock", "N"),
              Ins("Unlock", "G")>>
      [] call = "AddToFilterNS" ->
            <<Ins("Lock", "G"), Ins("SetNS", "new"), Ins("LoadNS", 2), Ins("RLock", "N"),
              Ins("RUnlock", "N"), Ins("Unlock", "G")>>
      \* nf and its locks are the call's own until nf.NSFilter is installed
      [] call = "UpdateGlobalFilterSame" -> <<Ins("Lock", "G"), Ins("Unlock", "G")>>
      [] call = "UpdateGlobalFilterNS" ->
            <<Ins("Lock", "G"), Ins("SetNS", "new"), Ins("Unlock", "G")>>
      [] call \in {"UpdateGlobalFilterNoNS", "DeleteFromGlobalFilter"} ->
            <<Ins("Lock", "G"), Ins("SetNS", "nil"), Ins("Unlock", "G")>>

InCall(t) == th[t].call # "none"

\* The lock an instruction of goroutine t is about, and the locks with it
\* replaced.
LockAt(lks, t, arg) == IF arg = "G" THEN lks.G ELSE lks.N[th[t].ns]

WithLock(lks, t, arg, l) ==
    IF arg = "G" THEN [lks EXCEPT !.G = l] ELSE [lks EXCEPT !.N[th[t].ns] = l]

\* sync.RWMutex: Lock waits for the writer and the readers to leave, and
\* from the moment it waits RLock waits as well.
MayLock(l) == l.writer = "none" /\ l.readers = {}
MayRLock(l) == l.writer = "none" /\ l.waiting = {}

\* Goroutine t is in a call and cannot take its next step.
Blocked(t) ==
    /\ InCall(t)
    /\ LET i == th[t].prog[th[t].pc]
       IN  \/ i.ins = "Lock" /\ t \in LockAt(locks, t, i.arg).waiting
                             /\ ~ MayLock(LockAt(locks, t, i.arg))
           \/ i.ins = "RLock" /\ ~ MayRLock(LockAt(locks, t, i.arg))

\* A NamespaceFilter object no pointer refers to.
FreshNS ==
    CHOOSE o \in NSObjects : o # locks.live /\ \A t \in Threads : th[t].ns # o

\* The goroutine after its step: at the next instruction, past the skipped
\* ones, or back from the call.
Advance(me, by) ==
    IF me.pc + by > Len(me.prog) THEN IdleThread ELSE [me EXCEPT !.pc = @ + by]

StartCall(t, call) ==
    /\ ~ InCall(t)
    /\ th' = [th EXCEPT ![t] = [call |-> call, pc |-> 1, prog |-> LockProgram(call), ns |-> "nil"]]
    /\ op' = [name |-> call, by |-> t]
    /\ UNCHANGED <<gf, lastWriter, panicked, rd, seen, store, hostMap, hist, queues, locks>>

StepCall(t) ==
    /\ InCall(t)
    /\ ~ Blocked(t)
    /\ LET me == th[t]
           i == me.prog[me.pc]
           l == LockAt(locks, t, i.arg)
       IN  CASE i.ins = "Lock" ->
                   IF MayLock(l)
                   THEN /\ locks' = WithLock(locks, t, i.arg,
                                             [l EXCEPT !.writer = t, !.waiting = @ \ {t}])
                        /\ th' = [th EXCEPT ![t] = Advance(me, 1)]
                   ELSE /\ locks' = WithLock(locks, t, i.arg, [l EXCEPT !.waiting = @ \cup {t}])
                        /\ th' = th
             [] i.ins = "RLock" ->
                   /\ locks' = WithLock(locks, t, i.arg, [l EXCEPT !.readers = @ \cup {t}])
                   /\ th' = [th EXCEPT ![t] = Advance(me, 1)]
             [] i.ins = "Unlock" ->
                   /\ locks' = WithLock(locks, t, i.arg, [l EXCEPT !.writer = "none"])
                   /\ th' = [th EXCEPT ![t] = Advance(me, 1)]
             [] i.ins = "RUnlock" ->
                   /\ locks' = WithLock(locks, t, i.arg, [l EXCEPT !.readers = @ \ {t}])
                   /\ th' = [th EXCEPT ![t] = Advance(me, 1)]
             [] i.ins = "LoadNS" ->
                   /\ locks' = locks
                   /\ th' = [th EXCEPT ![t] =
                                IF locks.live = "nil" THEN Advance(me, 1 + i.arg)
                                ELSE Advance([me EXCEPT !.ns = locks.live], 1)]
             [] i.ins = "SetNS" ->
                   /\ locks' = [locks EXCEPT !.live = IF i.arg = "new" THEN FreshNS ELSE "nil"]
                   /\ th' = [th EXCEPT ![t] = Advance(me, 1)]
    /\ UNCHANGED <<gf, op, lastWriter, panicked, rd, seen, store, hostMap, hist, queues>>

NextLock ==
    \/ \E t \in Threads, call \in LockCalls : StartCall(t, call)
    \/ \E t \in Threads : StepCall(t)

SpecLock == Init /\ [][NextLock]_vars

---------------------------------------------------------------------------
(* Claims *)

\* C1: for every filter state and every ingress-host or route candidate,
\* ApplyFilter returns the ordered decision: cluster not applicable rejects;
\* with a namespace filter, an unselected cluster or namespace rejects and a
\* selected namespace accepts iff there is no app filter or the labels match;
\* without a namespace filter, no app filter rejects, else the label match decides.
C1_ApplyFilterIsOrderedDecision ==
    op.name = "ApplyFilter" => op.ret = Decision(gf, op.cand)

\* A candidate accepted through a selected namespace and a matching app label.
C1_Witness ==
    /\ op.name = "ApplyFilter"
    /\ op.ret = TRUE
    /\ gf.NSFilter # <<>>
    /\ gf.AppFilter # <<>>

\* C2 (as claimed): the result of every ApplyFilter evaluation, ingress-host
\* or route, under any interleaving with the writers, is the decision against
\* one filter state that existed while it ran, never against a mixture of
\* fields from before and after a write.
C2_DecidesAgainstOneFilterState ==
    rd.pc = "done" => rd.ret \in seen

\* C3: in every state reachable through the writers, ApplyFilter accepts a
\* candidate only if its cluster is in ApplicableClusters, and an empty
\* ApplicableClusters rejects every candidate; IsClusterAllowed reports the
\* same membership.
C3_AcceptOnlyApplicableCluster ==
    /\ op.name = "ApplyFilter" /\ op.ret = TRUE => InList(op.cand.Cluster, gf.ApplicableClusters)
    /\ op.name = "ApplyFilter" /\ gf.ApplicableClusters = <<>> => op.ret = FALSE
    /\ op.name = "IsClusterAllowed" => (op.ret <=> InList(op.cname, gf.ApplicableClusters))

\* A candidate whose labels match the app filter, rejected for its cluster.
C3_Witness ==
    /\ op.name = "ApplyFilter"
    /\ op.ret = FALSE
    /\ gf.AppFilter # <<>>
    /\ gf.NSFilter = <<>>
    /\ HasLabel(op.cand.Labels, gf.AppFilter[1].Key, gf.AppFilter[1].Value)
    /\ ~ InList(op.cand.Cluster, gf.ApplicableClusters)

---------------------------------------------------------------------------
(* Policy content, as the claims speak of it *)

\* The label pair a selector configures: <<[Key, Value]>> for a selector with
\* exactly one pair, <<>> otherwise.
Configured(sel) ==
    IF Cardinality(DOMAIN sel) = 1
    THEN LET k == CHOOSE x \in DOMAIN sel : TRUE IN <<[Key |-> k, Value |-> sel[k]]>>
    ELSE <<>>

LabelOf(ptr) == IF ptr = <<>> THEN <<>> ELSE <<[Key |-> ptr[1].Key, Value |-> ptr[1].Value]>>

Count(x, list) == Cardinality({i \in DOMAIN list : list[i] = x})

\* The same entries, listed in any order.
IsPermutation(s, t) ==
    /\ Len(s) = Len(t)
    /\ \A i \in DOMAIN s : Count(s[i], s) = Count(s[i], t)

SplitOf(gdp) ==
    [i \in 1..Len(gdp.TrafficSplit) |->
        [ClusterName |-> gdp.TrafficSplit[i].Cluster, Weight |-> gdp.TrafficSplit[i].Weight]]

\* The filter holds the content of some policy that has the selectors,
\* applicable clusters and (cluster, weight) pairs of gdp, in any order.
BuiltFromSameContent(f, gdp) ==
    /\ LabelOf(f.AppFilter) = Configured(gdp.AppSelector)
    /\ LabelOf(f.NSFilter) = Configured(gdp.NamespaceSelector)
    /\ IsPermutation(f.ApplicableClusters, gdp.MatchClusters)
    /\ IsPermutation(f.TrafficSplit, SplitOf(gdp))
    /\ f.Checksum = ComputeChecksum(f)

\* C4: when the live filter was built from a policy with the same selectors,
\* applicable clusters and (cluster, weight) pairs as the new policy, listed in
\* any order, UpdateGlobalFilter returns (false, false) and changes no field.
C4_SameContentIsNoUpdate ==
    [][ (op'.name = "UpdateGlobalFilter" /\ op' # op /\ BuiltFromSameContent(gf, op'.gdp))
        => (op'.ret = <<FALSE, FALSE>> /\ gf' = gf) ]_vars

\* An update refused although the new policy lists its clusters and its traffic
\* split in another order than the live filter does.
C4_Witness ==
    /\ op.name = "UpdateGlobalFilter"
    /\ op.ret = <<FALSE, FALSE>>
    /\ BuiltFromSameContent(gf, op.gdp)
    /\ gf.ApplicableClusters # op.gdp.MatchClusters
    /\ gf.TrafficSplit # SplitOf(op.gdp)
    /\ Len(gf.TrafficSplit) = 2

\* The new policy differs from the filter in a selector, in the set of
\* applicable clusters or in the (cluster, weight) pairs.
Differs(f, gdp) ==
    \/ LabelOf(f.AppFilter) # Configured(gdp.AppSelector)
    \/ LabelOf(f.NSFilter) # Configured(gdp.NamespaceSelector)
    \/ {f.ApplicableClusters[i] : i \in DOMAIN f.ApplicableClusters}
          # {gdp.MatchClusters[i] : i \in DOMAIN gdp.MatchClusters}
    \/ ~ IsPermutation(f.TrafficSplit, SplitOf(gdp))

\* The filter's fields are exactly those the policy describes.
Describes(gdp, f) ==
    /\ LabelOf(f.AppFilter) = Configured(gdp.AppSelector)
    /\ LabelOf(f.NSFilter) = Configured(gdp.NamespaceSelector)
    /\ f.ApplicableClusters = gdp.MatchClusters
    /\ f.TrafficSplit = SplitOf(gdp)
    /\ f.Checksum = ComputeChecksum(f)

\* C5 (as claimed): an UpdateGlobalFilter whose new policy differs from the
\* live filter in a selector, the applicable clusters or the traffic split
\* returns updated=true and leaves the filter holding the new policy alone.
\* A call that returns updated=false leaves the filter as it was, so the
\* filter it returned on is the filter it compared with.
C5_DifferentPolicyIsUpdated ==
    op.name = "UpdateGlobalFilter" =>
        IF op.ret[1] THEN Describes(op.gdp, gf) ELSE ~ Differs(gf, op.gdp)

SameCluster(x, y) == x.Cluster = y.Cluster

\* C6 (as claimed): isTrafficWeightChanged(new, old) is true if the lengths
\* differ, if a cluster of the old list is absent from the new list or if a
\* cluster's weight differs between the two, and false when the same
\* (cluster, weight) pairs reappear in a different order.
C6_TrafficWeightChanged ==
    op.name = "isTrafficWeightChanged" =>
        /\ Len(op.new) # Len(op.old) => op.ret
        /\ (\E i \in DOMAIN op.old : \A j \in DOMAIN op.new : ~ SameCluster(op.old[i], op.new[j]))
              => op.ret
        /\ (\E i \in DOMAIN op.old, j \in DOMAIN op.new :
                SameCluster(op.old[i], op.new[j]) /\ op.old[i].Weight # op.new[j].Weight)
              => op.ret
        /\ IsPermutation(op.new, op.old) => ~ op.ret

\* No cluster is listed with two different weights.
OneWeightPerCluster(list) ==
    \A i, j \in DOMAIN list : SameCluster(list[i], list[j]) => list[i].Weight = list[j].Weight

\* C6 (amended): as claimed, the last part for lists in which no cluster is
\* listed with two different weights.
C6_TrafficWeightChangedAmended ==
    op.name = "isTrafficWeightChanged" =>
        /\ Len(op.new) # Len(op.old) => op.ret
        /\ (\E i \in DOMAIN op.old : \A j \in DOMAIN op.new : ~ SameCluster(op.old[i], op.new[j]))
              => op.ret
        /\ (\E i \in DOMAIN op.old, j \in DOMAIN op.new :
                SameCluster(op.old[i], op.new[j]) /\ op.old[i].Weight # op.new[j].Weight)
              => op.ret
        /\ (IsPermutation(op.new, op.old) /\ OneWeightPerCluster(op.old)) => ~ op.ret

\* The same pairs in another order, reported as unchanged.
C6_Witness ==
    /\ op.name = "isTrafficWeightChanged"
    /\ IsPermutation(op.new, op.old)
    /\ op.new # op.old
    /\ op.ret = FALSE

\* C7 (as claimed): after AddToFilter(policy), from any state, the filter's
\* AppFilter, NSFilter, ApplicableClusters and TrafficSplit are exactly those
\* of the policy and Checksum is the checksum of that content.
C7_AddToFilterRebuilds ==
    op.name = "AddToFilter" => Describes(op.gdp, gf)

\* The policy with every selector that has not exactly one pair left out.
Normalised(gdp) ==
    [gdp EXCEPT !.AppSelector = IF Cardinality(DOMAIN @) = 1 THEN @ ELSE NoLabels,
                !.NamespaceSelector = IF Cardinality(DOMAIN @) = 1 THEN @ ELSE NoLabels]

IsEmptyFilter(f) ==
    /\ f.AppFilter = <<>>
    /\ f.NSFilter = <<>>
    /\ f.ApplicableClusters = <<>>
    /\ f.TrafficSplit = <<>>
    /\ f.Checksum = Zero32

\* C8: a selector with zero or several label pairs acts exactly as an absent
\* selector, in AddToFilter and in UpdateGlobalFilter; a filter built from
\* such a policy (by UpdateGlobalFilter, or by AddToFilter on the empty
\* filter) has no AppFilter (no NSFilter); a selector with exactly one pair
\* configures the filter with that pair as key and value.
C8_OnlyOnePairConfigures ==
    [][ /\ (op'.name = "AddToFilter" /\ op' # op) =>
              /\ gf' = AddToFilter(gf, Normalised(op'.gdp))
              /\ Cardinality(DOMAIN op'.gdp.AppSelector) = 1
                    => LabelOf(gf'.AppFilter) = Configured(op'.gdp.AppSelector)
              /\ Cardinality(DOMAIN op'.gdp.NamespaceSelector) = 1
                    => LabelOf(gf'.NSFilter) = Configured(op'.gdp.NamespaceSelector)
              /\ IsEmptyFilter(gf) =>
                    /\ LabelOf(gf'.AppFilter) = Configured(op'.gdp.AppSelector)
                    /\ LabelOf(gf'.NSFilter) = Configured(op'.gdp.NamespaceSelector)
        /\ (op'.name = "UpdateGlobalFilter" /\ op' # op) =>
              /\ UpdateGlobalFilter(gf, GDP(NoLabels, NoLabels, <<>>, op'.oldTS),
                                    Normalised(op'.gdp)) = [gf |-> gf', ret |-> op'.ret]
              /\ op'.ret[1] =>
                    /\ LabelOf(gf'.AppFilter) = Configured(op'.gdp.AppSelector)
                    /\ LabelOf(gf'.NSFilter) = Configured(op'.gdp.NamespaceSelector)
      ]_vars

\* An update that installed a policy with a two-pair app selector and a
\* one-pair namespace selector.
C8_Witness ==
    /\ op.name = "UpdateGlobalFilter"
    /\ op.ret[1]
    /\ Cardinality(DOMAIN op.gdp.AppSelector) = 2
    /\ Cardinality(DOMAIN op.gdp.NamespaceSelector) = 1
    /\ gf.AppFilter = <<>>
    /\ gf.NSFilter # <<>>

\* C9: after DeleteFromGlobalFilter the filter has no AppFilter, no NSFilter,
\* empty ApplicableClusters and TrafficSplit and Checksum 0, and until the
\* next AddToFilter or UpdateGlobalFilter every ApplyFilter rejects and every
\* GetTrafficWeight fails.
C9_DeletedFilterRejects ==
    lastWriter = "DeleteFromGlobalFilter" =>
        /\ IsEmptyFilter(gf)
        /\ op.name = "ApplyFilter" => op.ret = FALSE
        /\ op.name = "GetTrafficWeight" => op.ret[2] = "error"

\* A GetTrafficWeight call made after the delete.
C9_Witness ==
    /\ lastWriter = "DeleteFromGlobalFilter"
    /\ op.name = "GetTrafficWeight"
    /\ op.ret[2] = "error"

\* C10 (as claimed): with a namespace filter configured, AddNSToNSFilter
\* succeeds for any cluster and afterwards the namespace occurs exactly once
\* in that cluster's selected set.
C10_AddNSSucceeds ==
    (op.name = "AddNSToNSFilter" /\ gf.NSFilter # <<>>) =>
        /\ op.ret = "nil"
        /\ op.cname \in DOMAIN gf.NSFilter[1].SelectedNS.entries
        /\ Count(op.ns, gf.NSFilter[1].SelectedNS.entries[op.cname]) = 1

\* The last call handed the filter a policy, which is then o.gdp.
PolicyApplied(o) == o.name \in {"AddToFilter", "UpdateGlobalFilter"}

\* C11 (as claimed): AddNSToNSFilter called while no NSFilter is configured,
\* that is in the initial state, after DeleteFromGlobalFilter or after a
\* policy without a usable namespace selector, returns an error and leaves
\* every field of the global filter unchanged.
C11_NoNSFilterIsError ==
    [][ op'.name = "AddNSToNSFilter" =>
          /\ gf.NSFilter = <<>> => (op'.ret = "error" /\ gf' = gf)
          /\ ( \/ lastWriter \in {"none", "DeleteFromGlobalFilter"}
               \/ PolicyApplied(op) /\ Configured(op.gdp.NamespaceSelector) = <<>> )
                => (op'.ret = "error" /\ gf' = gf)
      ]_vars

\* The policy assigns weight w to the cluster.
Assigns(gdp, cname, w) ==
    \E i \in DOMAIN gdp.TrafficSplit :
        gdp.TrafficSplit[i].Cluster = cname /\ gdp.TrafficSplit[i].Weight = w

\* C12 (as claimed): GetTrafficWeight(namespace, cluster) returns w without
\* error exactly when the traffic split of the most recently applied policy
\* assigns w to the cluster and an error when that policy (or the empty
\* filter) has no weight for it; the filter is unchanged and the namespace
\* does not influence the result.
C12_WeightOfLastPolicy ==
    [][ op'.name = "GetTrafficWeight" =>
          /\ gf' = gf
          /\ \A ns \in {n1, n2} : op'.ret = GetTrafficWeight(gf, ns, op'.cname)
          /\ lastWriter \in {"none", "DeleteFromGlobalFilter"} => op'.ret[2] = "error"
          /\ PolicyApplied(op) =>
                /\ op'.ret[2] = "nil" => Assigns(op.gdp, op'.cname, op'.ret[1])
                /\ op'.ret[2] = "error" <=>
                      \A i \in DOMAIN op.gdp.TrafficSplit : op.gdp.TrafficSplit[i].Cluster # op'.cname
      ]_vars

\* Every ordering of the entries of a list.
Perms(list) ==
    {[i \in DOMAIN list |-> list[p[i]]] :
        p \in {q \in [DOMAIN list -> DOMAIN list] : \A i, j \in DOMAIN list : q[i] = q[j] => i = j}}

\* C13: for the same selectors, applicable clusters and traffic-split pairs,
\* ComputeChecksum yields the same value for every permutation of the list of
\* applicable clusters and of the traffic-split list.
C13_ChecksumOrderIndependent ==
    op.name = "ComputeChecksum" =>
        \A mc \in Perms(gf.ApplicableClusters), ts \in Perms(gf.TrafficSplit) :
            ComputeChecksum([gf EXCEPT !.ApplicableClusters = mc, !.TrafficSplit = ts])
                = gf.Checksum

\* A checksum computed over two different clusters and two different
\* traffic-split pairs, which have another order to be listed in.
C13_Witness ==
    /\ op.name = "ComputeChecksum"
    /\ Len(gf.ApplicableClusters) = 2
    /\ gf.ApplicableClusters[1] # gf.ApplicableClusters[2]
    /\ Len(gf.TrafficSplit) = 2
    /\ gf.TrafficSplit[1] # gf.TrafficSplit[2]
    /\ gf.AppFilter # <<>>
    /\ gf.Checksum # Zero32

\* C14: ApplyFilter is a function of the candidate's cluster, namespace and
\* labels and of the filter's fields: an evaluation changes no field of the
\* global filter, and the next evaluation of a candidate with the same
\* cluster, namespace and labels, as an ingress host or as a route, returns
\* the same result.
C14_ApplyFilterIsPure ==
    [][ op'.name = "ApplyFilter" =>
          /\ gf' = gf
          /\ (op.name = "ApplyFilter" /\ op.cand = op'.cand) => op'.ret = op.ret
      ]_vars

\* A route accepted for its selected namespace alone.
C14_Witness ==
    /\ op.name = "ApplyFilter"
    /\ op.kind = "route"
    /\ op.ret = TRUE
    /\ gf.NSFilter # <<>>
    /\ gf.AppFilter = <<>>

---------------------------------------------------------------------------
(* The stores and the caches, as the claims speak of them *)

StoreKinds == {"ingress", "route", "svc"}

\* The object <<kind, cluster, namespace, name>> has had an event.
HasEvent(kind, key) == <<kind>> \o key \in DOMAIN hist.event

LastEvent(kind, key) == hist.event[<<kind>> \o key]

\* C15 (as claimed): for each kind, after any sequence of add/update and
\* delete events, the store holds an entry for (cluster, namespace, name)
\* exactly when the last event for that object was an add/update, and the
\* entry is the metadata of that add/update; after a delete no entry remains.
C15_StoreHoldsLastEvent ==
    \A kind \in StoreKinds :
        /\ \A key \in DOMAIN store[kind] :
              /\ HasEvent(kind, key)
              /\ LastEvent(kind, key) = <<"add", store[kind][key]>>
        /\ \A e \in DOMAIN hist.event :
              (e[1] = kind /\ LastEvent(kind, <<e[2], e[3], e[4]>>)[1] = "add")
                  => <<e[2], e[3], e[4]>> \in DOMAIN store[kind]

DeleteOps == {"DeleteFromRouteStore", "DeleteFromIngressStore", "DeleteFromLBSvcStore"}

AddOps == {"AddOrUpdateRouteStore", "AddOrUpdateIngressStore", "AddOrUpdateLBSvcStore"}

\* C16 (as claimed): a delete of an object that has never been added, and a
\* delete through a nil store pointer, leave every entry of every store as it
\* is; an add/update leaves exactly the entries there were and the one of its
\* object, which holds the metadata of this add/update, also when the object
\* was there before.
C16_DeleteOfAbsentIsNoOp ==
    [][ /\ (op'.name \in DeleteOps /\ (op'.nilStore \/ ~ HasEvent(op'.kind, op'.key)))
              => store' = store
        /\ op'.name \in AddOps =>
              /\ DOMAIN store'[op'.kind] = DOMAIN store[op'.kind] \cup {op'.key}
              /\ <<"add", store'[op'.kind][op'.key]>> = hist'.event[<<op'.kind>> \o op'.key]
              /\ \A key \in DOMAIN store[op'.kind] \ {op'.key} :
                    store'[op'.kind][key] = store[op'.kind][key]
              /\ \A kind \in StoreKinds \ {op'.kind} : store'[kind] = store[kind]
      ]_vars

\* What Recall(key) is to return: the hostname of the last Remember of the
\* key that no Forget of the key has followed, else the empty string.
Remembered(kind, key) ==
    IF key \in DOMAIN hist.remembered[kind] THEN hist.remembered[kind][key] ELSE EmptyString

HostOps == {"UpdateHostMap", "DeleteMapByKey", "GetHostnameFromHostMap"}

\* C17: after any sequence of UpdateHostMap, DeleteMapByKey and
\* GetHostnameFromHostMap calls on the cache of a kind,
\* GetHostnameFromHostMap(key) returns the hostname of the most recent
\* UpdateHostMap(key) not followed by a DeleteMapByKey(key), and the empty
\* string for a key never remembered or forgotten since.
C17_RecallReturnsLastRemembered ==
    /\ op.name = "GetHostnameFromHostMap" => op.ret = Remembered(op.kind, op.key)
    /\ \A kind \in Kinds, key \in HostKeys :
          \A obj \in HostObjs(kind) :
              GetHostnameFromHostMap(hostMap, kind, obj, key) = Remembered(kind, key)

\* A Recall that returned the empty string for a forgotten route key while
\* the other key of the routes is still remembered.
C17_Witness ==
    /\ op.name = "GetHostnameFromHostMap"
    /\ op.kind = "route"
    /\ op.ret = EmptyString
    /\ DOMAIN hostMap.route = HostKeys \ {op.key}
    /\ HasEvent("route", <<c1, n1, r1>>)

\* C18: DeleteFromRouteStore and DeleteFromIngressStore change no entry of a
\* host memory cache, a GetHostnameFromHostMap made after them still returns
\* the remembered hostname, and a call on the cache of one kind changes
\* nothing in the cache of the other kind.
C18_CacheOutlivesObject ==
    [][ /\ op'.name \in DeleteOps => hostMap' = hostMap
        /\ (op'.name = "GetHostnameFromHostMap" /\ op.name \in DeleteOps)
              => op'.ret = Remembered(op'.kind, op'.key)
        /\ (op'.name \in HostOps /\ op'.kind = "ingress") => hostMap'.route = hostMap.route
        /\ (op'.name \in HostOps /\ op'.kind = "route") => hostMap'.ingress = hostMap.ingress
      ]_vars

\* The route has been deleted from the store and is gone from it, and the
\* cache still holds the hostname remembered for the key k1.
C18_Witness ==
    /\ op.name = "DeleteFromRouteStore"
    /\ LastEvent("route", <<c1, n1, r1>>) = <<"delete">>
    /\ store.route = EmptyMap
    /\ k1 \in DOMAIN hostMap.route
    /\ hostMap.route[k1].Hostname = h2
    /\ k1 \notin DOMAIN hostMap.ingress


\* The paths the rules of an ingress declare for a host: every rule of the
\* host contributes, "" read as "/", each path once, in the order met.
RECURSIVE PathsOfAllRules(_, _, _)
PathsOfAllRules(host, rules, pathList) ==
    IF rules = <<>> THEN pathList
    ELSE PathsOfAllRules(host, Tail(rules),
                         IF Head(rules).Host = host /\ Head(rules).HTTP # <<>>
                         THEN AddRulePaths(Head(rules).HTTP[1], pathList)
                         ELSE pathList)

DeclaredPaths(host, ingress) ==
    LET pathList == PathsOfAllRules(host, ingress.Rules, <<>>)
    IN  IF pathList = <<>> THEN <<Slash>> ELSE pathList

InTLSHosts(host, ingress) ==
    \E i \in DOMAIN ingress.TLS : \E j \in DOMAIN ingress.TLS[i].Hosts :
        ingress.TLS[i].Hosts[j] = host

\* C19: GetIngressHostMeta returns one object per host of the ingress that
\* has an IP address; the paths of the object are the paths of all the rules
\* of that host, "" read as "/", each once and in the order met, or ["/"]
\* when there are none; its TLS flag is set exactly when the host is in a
\* TLS entry of the ingress.
C19_PathsOfAllRulesOfHost ==
    op.name = "GetIngressHostMeta" =>
        /\ Len(op.metas) = Len(op.src.HostIPs)
        /\ \A k \in DOMAIN op.metas :
              /\ op.metas[k].Hostname = op.src.HostIPs[k].Hostname
              /\ op.metas[k].Paths = DeclaredPaths(op.metas[k].Hostname, op.src)
              /\ op.metas[k].TLS = InTLSHosts(op.metas[k].Hostname, op.src)

RouteIsPassthroughTLS(route) ==
    route.TLS # <<>> /\ route.TLS[1].Termination = PassthroughRoute

\* C20: on the metadata of a passthrough route IsPassthrough is true, GetPort
\* and GetProtocol return the health monitor port and TCP with no error and
\* GetPaths returns an error; on the metadata of any other route GetPort and
\* GetProtocol return an error, the TLS flag is set exactly when the route has
\* a TLS block and GetPaths returns the path of the route alone, or "/" when
\* the route has none. GetPort and GetProtocol of an ingress host return an
\* error.
C20_RouteCapabilities ==
    /\ (op.name = "GetRouteMeta") =>
          /\ op.metas[1].Passthrough = RouteIsPassthroughTLS(op.src)
          /\ ~RouteIsPassthroughTLS(op.src) => op.metas[1].TLS = (op.src.TLS # <<>>)
    /\ (op.name \in {"GetPort", "GetProtocol", "GetPaths", "GetTLS", "IsPassthrough"}
        /\ op.kind = "route") =>
          LET pass == RouteIsPassthroughTLS(op.src)
          IN  /\ (op.name = "IsPassthrough") => op.ret = pass
              /\ (op.name = "GetPort") =>
                    IF pass THEN op.ret = <<DefaultHTTPSHealthMonitorPort, "nil">>
                    ELSE op.ret[2] = "error"
              /\ (op.name = "GetProtocol") =>
                    IF pass THEN op.ret = <<ProtocolTCP, "nil">> ELSE op.ret[2] = "error"
              /\ (op.name = "GetPaths") =>
                    IF pass THEN op.ret[2] = "error"
                    ELSE op.ret = <<<<IF op.src.Path = EmptyString THEN Slash ELSE op.src.Path>>,
                                    "nil">>
              /\ (op.name = "GetTLS" /\ ~pass) => op.ret = <<op.src.TLS # <<>>, "nil">>
    /\ (op.name \in {"GetPort", "GetProtocol"} /\ op.kind = "ingress") => op.ret[2] = "error"

\* C20 witness: GetPaths was called on the metadata of a passthrough route
\* and returned an error.
C20_Witness ==
    /\ op.name = "GetPaths"
    /\ op.kind = "route"
    /\ RouteIsPassthroughTLS(op.src)
    /\ op.ret[2] = "error"


\* C21: two ingress hosts with the same cluster, namespace, name, hostname, IP
\* address and labels whose path lists are orderings of one another have the
\* same GetIngressHostCksum.
C21_IngressCksumOrderIndependent ==
    op.name = "GetIngressHostCksum" =>
        \A pl \in Perms(op.built) :
            GetIngressHostCksum([op.ing EXCEPT !.Paths = pl]) = op.ret

\* C21 witness: the checksum of an ingress host with labels whose three paths
\* were built in an order other than the sorted one.
C21_Witness ==
    /\ op.name = "GetIngressHostCksum"
    /\ Len(op.built) = 3
    /\ op.built # SortStrings(op.built)
    /\ op.ing.Labels # NoLabels
    /\ op.ret # Zero32

\* C29: GetIngressHostCksum leaves the object as it was: whatever number of
\* checksums was computed on the metadata or on its copy in the store, both
\* hold the paths in the order they were built in, and GetPaths returns them
\* in that order.
C29_CksumLeavesPaths ==
    /\ op.name # "input" =>
          /\ op.ing.Paths = op.built
          /\ \A k \in DOMAIN store.ingress : store.ingress[k].Paths = op.built
    /\ op.name = "GetPaths" => op.ret = <<op.built, "nil">>



InQueue(q, key) == \E i \in DOMAIN queues[q] : queues[q][i] = key

\* C22: a call SyncFromRetryLayer(key) adds one item, the namespace and the
\* name taken from the key, at the end of the graph-layer queue, whatever the
\* queue holds already; it changes no other queue and returns no error.
C22_PublishesOnceToGraphLayer ==
    [][op'.name = "SyncFromRetryLayer" =>
          LET nsName == ExtractNamespaceObjectName(op'.key)
          IN  /\ queues'[GraphLayer] = Append(queues[GraphLayer], nsName[1] \o Slash \o nsName[2])
              /\ \A q \in DOMAIN queues \ {GraphLayer} : queues'[q] = queues[q]
              /\ op'.ret = "nil"
      ]_vars

\* C22 witness: the graph-layer queue holds the same key three times, after
\* three calls with it.
C22_Witness ==
    /\ op.name = "SyncFromRetryLayer"
    /\ op.key = gs1
    /\ queues[GraphLayer] = <<gs1, gs1, gs1>>

\* C23: a key handed to the retry layer is eventually published on the
\* graph-layer queue, and a key published there is eventually handed
\* downstream again, however often it has failed before.
C23_RetriedKeyIsRepublished ==
    \A key \in LayerKeys :
        /\ InQueue(RetryLayer, key) ~> InQueue(GraphLayer, key)
        /\ InQueue(GraphLayer, key) ~> (key \in queues.rest)

\* C23 witness: a key that has failed as often as is counted is published on
\* the graph-layer queue once more.
C23_Witness ==
    /\ op.name = "RetryWorker"
    /\ queues.fails[op.key] = MaxFails
    /\ InQueue(GraphLayer, op.key)



\* C24: an evaluation that found a namespace filter and goes on to read its
\* selected namespaces does not find the filter's NSFilter nil: whatever the
\* writers do beside it, it does not crash there.
C24_NoNilNSFilterDereference ==
    [][rd.pc = "selected" => rd'.pc # "panic"]_vars



\* The two policies have the same selectors, applicable clusters and
\* traffic-split clusters, and not the same weights.
WeightsOnlyDiffer(p, q) ==
    /\ p.AppSelector = q.AppSelector
    /\ p.NamespaceSelector = q.NamespaceSelector
    /\ p.MatchClusters = q.MatchClusters
    /\ Len(p.TrafficSplit) = Len(q.TrafficSplit)
    /\ \A i \in DOMAIN p.TrafficSplit : p.TrafficSplit[i].Cluster = q.TrafficSplit[i].Cluster
    /\ \E i \in DOMAIN p.TrafficSplit : p.TrafficSplit[i].Weight # q.TrafficSplit[i].Weight

SelectedNSOf(f) == IF f.NSFilter = <<>> THEN <<>> ELSE <<f.NSFilter[1].SelectedNS.entries>>

\* C25 (as claimed): an UpdateGlobalFilter from the policy applied last to a
\* policy that differs from it in traffic weights only leaves the selected
\* namespaces as they were, and every candidate's ApplyFilter result is the
\* same before and after the call.
C25_WeightChangeKeepsDecisions ==
    [][ ( /\ op'.name = "UpdateGlobalFilter"
          /\ PolicyApplied(op)
          /\ WeightsOnlyDiffer(op.gdp, op'.gdp)
          /\ op'.oldTS = op.gdp.TrafficSplit )
        => /\ SelectedNSOf(gf') = SelectedNSOf(gf)
           /\ \A kind \in Kinds, cand \in Candidates :
                 ApplyFilter(kind, gf', cand) = ApplyFilter(kind, gf, cand)
      ]_vars



\* C26 (as claimed): an UpdateGlobalFilter call after which the filter holds
\* other (cluster, weight) pairs than before returns trafficWeightChanged =
\* true, and no call returns (false, true).
C26_SplitChangeIsReported ==
    [][ op'.name = "UpdateGlobalFilter" =>
          /\ ~ IsPermutation(gf.TrafficSplit, gf'.TrafficSplit) => op'.ret[2]
          /\ op'.ret # <<FALSE, TRUE>>
      ]_vars



\* The filter with the selected namespaces of its NSFilter replaced.
WithSelectedNS(f, selected) ==
    IF f.NSFilter = <<>> THEN f ELSE [f EXCEPT !.NSFilter[1].SelectedNS = selected]

\* C27: in every state the writers reach, the stored Checksum is the sum of
\* hashes computed from the filter's AppFilter, NSFilter label, applicable
\* clusters and traffic split, 0 for the empty filter; it does not depend on
\* the selected namespaces, so that after AddNSToNSFilter the checksum is the
\* one the last writer left and UpdateGlobalFilter answers a policy as it
\* would with no namespace added.
C27_ChecksumOfCurrentFields ==
    /\ gf.Checksum = ComputeChecksum(gf)
    /\ gf.NSFilter # <<>> => gf.NSFilter[1].Checksum = Hash(gf.NSFilter[1].Key \o gf.NSFilter[1].Value)
    /\ (gf.AppFilter = <<>> /\ gf.NSFilter = <<>> /\ gf.ApplicableClusters = <<>>
        /\ gf.TrafficSplit = <<>>) => gf.Checksum = Zero32
    /\ op.name = "AddNSToNSFilter" =>
          \A selected \in SelectedNSMaps :
              /\ ComputeChecksum(WithSelectedNS(gf, selected)) = gf.Checksum
              /\ \A gdp \in Policies :
                    UpdateGlobalFilter(WithSelectedNS(gf, selected), gdp, gdp).ret
                        = UpdateGlobalFilter(gf, gdp, gdp).ret

\* C27 witness: AddNSToNSFilter was called on a filter with a namespace
\* filter, an AppFilter and a traffic split.
C27_Witness ==
    /\ op.name = "AddNSToNSFilter"
    /\ gf.NSFilter # <<>>
    /\ gf.AppFilter # <<>>
    /\ gf.TrafficSplit # <<>>
    /\ gf.Checksum # Zero32



Holds(t, l) == l.writer = t \/ t \in l.readers

HoldsNS(t) == \E o \in NSObjects : Holds(t, locks.N[o])

\* C28: the calls on the global filter never deadlock: while goroutines are
\* in a call, one of them can take its next step; no goroutine asks for the
\* engine-wide lock while it holds a namespace filter's lock; and a goroutine
\* that is back from its call holds no lock and waits for none.
C28_NoDeadlock ==
    /\ (\E t \in Threads : InCall(t)) => (\E t \in Threads : InCall(t) /\ ~ Blocked(t))
    /\ \A t \in Threads :
          (InCall(t) /\ th[t].prog[th[t].pc].ins \in {"Lock", "RLock"}
           /\ th[t].prog[th[t].pc].arg = "G") => ~ HoldsNS(t)
    /\ \A t \in Threads :
          ~ InCall(t) =>
              /\ ~ Holds(t, locks.G) /\ t \notin locks.G.waiting
              /\ \A o \in NSObjects : ~ Holds(t, locks.N[o]) /\ t \notin locks.N[o].waiting

\* C28 witness: AddNSToNSFilter holds the engine-wide lock and waits for the
\* lock of the namespace filter, which an ingress-host evaluation holds.
C28_Witness ==
    \E t, u \in Threads :
        /\ th[t].call = "AddNSToNSFilter"
        /\ locks.G.writer = t
        /\ Blocked(t)
        /\ th[u].call = "IngressApplyFilter"
        /\ u \in locks.N[th[t].ns].readers


====
